---- MODULE Spec2Model ----
(***************************************************************************)
(* A model of the beans-gambit chess library: the piece storage, the board *)
(* with make_move / unmake_last_move and incremental Zobrist hashing, and  *)
(* the legal move generator with its sliding attack tables.                *)
(*                                                                         *)
(* Squares are 0..63 (file = s % 8, rank = s \div 8), pieces are 0..11     *)
(* (kind = p % 6, white iff p >= 6), a Bitboard is the set of its squares. *)
(* A BoardHash is the set of Zobrist keys XORed into it: XOR of two hashes *)
(* is the symmetric difference, so two hashes that are equal here are      *)
(* equal for every choice of the random keys.                              *)
(***************************************************************************)
EXTENDS Integers, Sequences, FiniteSets, TLC

VARIABLES
    \* The board in play, the caller's stack of UnmakeInfo tokens, the move
    \* list last generated and the last call made on the board.
    board, stack, moves, last,
    \* A piece storage on its own, the hash threaded through its set calls
    \* and the last call.
    ps, psHash, psLast,
    \* A lookup in the sliding attack tables.
    lookup,
    \* A FEN string, the result of Board::from_fen on it and the string
    \* Board::to_fen writes for the board parsed.
    fen, parsed, printed,
    \* The UCI adapter: the main thread's position in its loop, its board,
    \* the two atomic flags, the cache behind its mutex, the search workers,
    \* the lines written to stdout, the last command handled, the number of
    \* ucinewgame commands handled and the number of commands read.
    pc, uciBoard, RUNNING, SHOULD_STOP, cache, cacheLock, workers, output, uciLast,
    games, handled,
    \* A thread running search: the static scores eval gives, the board it
    \* works on, the entries of the InterMoveCache, the frames of the calls of
    \* search and minimax in progress, the value the last call returned, the
    \* answer stop_fn gives now, what the search in progress has seen (stop_fn
    \* saying true, a cache hit, a hit on an entry it has not written itself or
    \* deeper than asked for, the hashes it has written, a move made after
    \* stop_fn said true), the last
    \* step taken, and the numbers of searches started and stops requested.
    scores, searchBoard, saved_positions, callStack, ret, stopping, observed,
    searchLast, searched, stops,
    \* The options of a GlobalState and the last call made on it.
    globalOptions, optionLast

boardVars == <<board, stack, moves, last>>
storageVars == <<ps, psHash, psLast>>
slidingVars == <<lookup>>
fenVars == <<fen, parsed, printed>>
uciVars == <<pc, uciBoard, RUNNING, SHOULD_STOP, cache, cacheLock, workers, output, uciLast, games, handled>>

searchVars == <<scores, searchBoard, saved_positions, callStack, ret, stopping, observed, searchLast, searched, stops>>
optionVars == <<globalOptions, optionLast>>

vars == <<boardVars, storageVars, slidingVars, fenVars, uciVars, searchVars, optionVars>>

(***************************************************************************)
(* Bounds of the model.                                                    *)
(***************************************************************************)
MaxPly == 2
MaxStorageSquare == 2
MaxStoragePiece == 3

(***************************************************************************)
(* Option::None for squares, pieces and piece kinds.                       *)
(***************************************************************************)
None == 0 - 1

Squares == 0 .. 63
Pieces == 0 .. 11

White == "White"
Black == "Black"

Not(color) == IF color = White THEN Black ELSE White

\* board/color.rs
is_white(color) == color = White
back_rank(color) == IF color = White THEN 0 ELSE 7
promotion_rank(color) == IF color = White THEN 7 ELSE 0
pawn_starting_rank(color) == IF color = White THEN 1 ELSE 6
up(color) == IF color = White THEN 1 ELSE 0 - 1

\* board/piece.rs
Pawn == 0
Knight == 1
Bishop == 2
Rook == 3
Queen == 4
King == 5

PieceNew(kind, color) == kind + (IF is_white(color) THEN 1 ELSE 0) * 6
kind(piece) == piece % 6
color(piece) == IF piece >= 6 THEN White ELSE Black

\* board/square.rs
file(sq) == sq % 8
rank(sq) == sq \div 8
at(f, r) == f + r * 8

translated_by(sq, dx, dy) ==
    LET new_x == file(sq) + dx
        new_y == rank(sq) + dy
    IN IF new_x >= 0 /\ new_x < 8 /\ new_y >= 0 /\ new_y < 8
       THEN at(new_x, new_y)
       ELSE None

signum(x) == IF x > 0 THEN 1 ELSE IF x < 0 THEN 0 - 1 ELSE 0

(***************************************************************************)
(* board/hash.rs: the Zobrist keys and the incremental updates.            *)
(***************************************************************************)
Xor(h, keys) == {k \in h \cup keys : ~(k \in h /\ k \in keys)}

zero == {}

PIECE_HASHES(piece, sq) == <<"piece", piece * 64 + sq>>
BLACK_TO_MOVE_HASH == <<"move", 0>>
CASTLING_RIGHTS(rights) == <<"castling", rights>>
EN_PASSANT_FILE(f) == <<"ep", f>>

toggle_piece(h, piece, sq) == Xor(h, {PIECE_HASHES(piece, sq)})

update_castling_rights(h, prev_rights, rights) ==
    Xor(Xor(h, {CASTLING_RIGHTS(prev_rights)}), {CASTLING_RIGHTS(rights)})

toggle_move(h) == Xor(h, {BLACK_TO_MOVE_HASH})

\* A variant that does not take the previous file out of the hash.
set_en_passant_file_keeping_prev(h, prev_sq, sq) ==
    IF sq # None THEN Xor(h, {EN_PASSANT_FILE(file(sq))}) ELSE h

set_en_passant_file(h, prev_sq, sq) ==
    LET h1 == IF prev_sq # None THEN Xor(h, {EN_PASSANT_FILE(file(prev_sq))}) ELSE h
    IN IF sq # None THEN Xor(h1, {EN_PASSANT_FILE(file(sq))}) ELSE h1

(***************************************************************************)
(* board/piece_storage.rs: twelve bitboards and a 64-entry mailbox.        *)
(* StorageSet returns the pair <<storage after the call, returned hash>>.  *)
(***************************************************************************)
StorageNew ==
    [piece_bitboards |-> [p \in Pieces |-> {}],
     square_contents |-> [s \in Squares |-> None]]

StorageGet(st, sq) == st.square_contents[sq]

StorageSetNoRemove(st, h, sq, contents) ==
    LET old == StorageGet(st, sq)
        h1 == IF old # None THEN toggle_piece(h, old, sq) ELSE h
        h2 == IF contents # None THEN toggle_piece(h1, contents, sq) ELSE h1
        bb2 == IF contents # None
               THEN [st.piece_bitboards EXCEPT ![contents] = @ \cup {sq}]
               ELSE st.piece_bitboards
    IN <<[piece_bitboards |-> bb2,
          square_contents |-> [st.square_contents EXCEPT ![sq] = contents]], h2>>

StorageSet(st, h, sq, contents) ==
    LET old == StorageGet(st, sq)
        h1 == IF old # None THEN toggle_piece(h, old, sq) ELSE h
        bb1 == IF old # None
               THEN [st.piece_bitboards EXCEPT ![old] = @ \ {sq}]
               ELSE st.piece_bitboards
        h2 == IF contents # None THEN toggle_piece(h1, contents, sq) ELSE h1
        bb2 == IF contents # None
               THEN [bb1 EXCEPT ![contents] = @ \cup {sq}]
               ELSE bb1
    IN <<[piece_bitboards |-> bb2,
          square_contents |-> [st.square_contents EXCEPT ![sq] = contents]], h2>>

piece_bitboard(st, piece) == st.piece_bitboards[piece]

(***************************************************************************)
(* board.rs: CastlingRights, one byte with the bits WQ = 1, WK = 2,        *)
(* BQ = 4, BK = 8.  The without_* operators return <<hash, rights>>.       *)
(***************************************************************************)
Bit(v, i) == (v \div (2 ^ i)) % 2
ClearBit(v, i) == v - Bit(v, i) * (2 ^ i)

CastlingNone == 0
CastlingAll == 15

CastlingRightsNew(white_queenside, white_kingside, black_queenside, black_kingside) ==
    (IF white_queenside THEN 1 ELSE 0) + (IF white_kingside THEN 2 ELSE 0)
    + (IF black_queenside THEN 4 ELSE 0) + (IF black_kingside THEN 8 ELSE 0)

queenside(rights, c) == IF is_white(c) THEN Bit(rights, 0) # 0 ELSE Bit(rights, 2) # 0
kingside(rights, c) == IF is_white(c) THEN Bit(rights, 1) # 0 ELSE Bit(rights, 3) # 0

without_color(rights, h, c) ==
    LET new_rights == IF is_white(c) THEN ClearBit(ClearBit(rights, 0), 1)
                                     ELSE ClearBit(ClearBit(rights, 2), 3)
    IN <<update_castling_rights(h, rights, new_rights), new_rights>>

\* A variant that clears the kingside right of both colours.
without_kingside_of_both(rights, h, c) ==
    LET new_rights == ClearBit(ClearBit(rights, 1), 3)
    IN <<update_castling_rights(h, rights, new_rights), new_rights>>

without_kingside(rights, h, c) ==
    LET new_rights == IF is_white(c) THEN ClearBit(rights, 1) ELSE ClearBit(rights, 3)
    IN <<update_castling_rights(h, rights, new_rights), new_rights>>

without_queenside(rights, h, c) ==
    LET new_rights == IF is_white(c) THEN ClearBit(rights, 0) ELSE ClearBit(rights, 2)
    IN <<update_castling_rights(h, rights, new_rights), new_rights>>

(***************************************************************************)
(* Machine words are held in 16-bit limbs, the low limb first.  A u32 (the *)
(* two clocks of the board) is a pair of limbs.                            *)
(***************************************************************************)
Limb == 65536

U32(n) == <<n % Limb, n \div Limb>>
U32_MAX == <<Limb - 1, Limb - 1>>

\* v + 1 and v - 1 modulo 2^32: what += 1 and -= 1 compute in a build
\* without overflow checks.
u32_wrapping_add_1(v) ==
    IF v[1] + 1 < Limb THEN <<v[1] + 1, v[2]>> ELSE <<0, (v[2] + 1) % Limb>>
u32_wrapping_sub_1(v) ==
    IF v[1] > 0 THEN <<v[1] - 1, v[2]>> ELSE <<Limb - 1, (v[2] + Limb - 1) % Limb>>

(***************************************************************************)
(* board.rs: Board::new computes the hash from scratch.  pieces is the     *)
(* 64-entry array of Option<Piece>, given as a sequence (index square+1).  *)
(***************************************************************************)
\* The loop over the array from index i on, <<st, h>> being the storage and
\* the hash so far.  (The comparison makes TLC compute each step before it
\* descends to the next, which keeps the evaluation shallow.)
RECURSIVE PlaceAll(_, _, _, _)
PlaceAll(pieces, i, st, h) ==
    IF i = 64 THEN <<st, h>>
    ELSE IF pieces[i + 1] # None
         THEN LET r == StorageSet(st, h, i, pieces[i + 1])
              IN IF r = r THEN PlaceAll(pieces, i + 1, r[1], r[2]) ELSE r
         ELSE PlaceAll(pieces, i + 1, st, h)

BoardNew(pieces, color_to_move, en_passant_destination, castling_rights, halfmoves_since_event, fullmoves) ==
    LET placed == PlaceAll(pieces, 0, StorageNew, zero)
        h1 == IF ~is_white(color_to_move) THEN toggle_move(placed[2]) ELSE placed[2]
        h2 == IF en_passant_destination # None
              THEN set_en_passant_file(h1, None, en_passant_destination)
              ELSE h1
        h3 == update_castling_rights(h2, CastlingAll, castling_rights)
    IN [pieces |-> placed[1],
        color_to_move |-> color_to_move,
        en_passant_destination |-> en_passant_destination,
        castling_rights |-> castling_rights,
        halfmoves_since_event |-> halfmoves_since_event,
        fullmoves |-> fullmoves,
        hash |-> h3]

\* self.hash = self.pieces.set(self.hash, sq, contents)
Put(b, sq, contents) ==
    LET r == StorageSet(b.pieces, b.hash, sq, contents)
    IN [b EXCEPT !.pieces = r[1], !.hash = r[2]]

\* (self.hash, self.castling_rights) = <<hash, rights>>
WithRights(b, hr) == [b EXCEPT !.hash = hr[1], !.castling_rights = hr[2]]

Move(source, destination, promotion) ==
    [source |-> source, destination |-> destination, promotion |-> promotion]

(***************************************************************************)
(* board.rs: make_move.  Returns [board, um]: the board after the move and *)
(* the UnmakeInfo token.                                                   *)
(***************************************************************************)
\* A variant that finds an enemy pawn beside every double push.
pawn_exists_always(b0, mv, source_piece) == TRUE

\* The test of the double-push branch: an enemy pawn stands on the
\* destination's rank on a file next to the destination's.
pawn_exists(b0, mv, source_piece) ==
    LET enemy_pawn_bitboard ==
            piece_bitboard(b0.pieces, PieceNew(Pawn, Not(color(source_piece))))
    IN \E ddx \in {0 - 1, 1} :
           /\ translated_by(mv.destination, ddx, 0) # None
           /\ translated_by(mv.destination, ddx, 0) \in enemy_pawn_bitboard

MakeMoveBranch(b0, mv, source_piece, destination_piece, dx, dy) ==
    IF kind(source_piece) = Pawn /\ destination_piece = None /\ dx # 0
    THEN \* En passant
         Put(Put(Put(b0, mv.source, None), mv.destination, source_piece),
             at(file(mv.destination), rank(mv.source)), None)
    ELSE IF mv.promotion # None
    THEN \* Promotion
         Put(Put(b0, mv.source, None), mv.destination,
             PieceNew(mv.promotion, color(source_piece)))
    ELSE IF kind(source_piece) = King /\ dx = 0 - 2
    THEN \* Long castle
         LET b1 == WithRights(b0, without_color(b0.castling_rights, b0.hash,
                                                color(source_piece)))
         IN Put(Put(Put(Put(b1, mv.source, None), mv.destination, source_piece),
                    at(0, rank(mv.source)), None),
                at(3, rank(mv.source)), PieceNew(Rook, color(source_piece)))
    ELSE IF kind(source_piece) = King /\ dx = 2
    THEN \* Short castle
         LET b1 == WithRights(b0, without_color(b0.castling_rights, b0.hash,
                                                color(source_piece)))
         IN Put(Put(Put(Put(b1, mv.source, None), mv.destination, source_piece),
                    at(7, rank(mv.source)), None),
                at(5, rank(mv.source)), PieceNew(Rook, color(source_piece)))
    ELSE IF kind(source_piece) = Pawn /\ (dy = 2 \/ dy = 0 - 2)
    THEN \* Double pawn push: the e.p. square is set only if an enemy pawn
         \* stands beside the destination.
         LET new_destination == at(file(mv.destination), rank(mv.destination) - (dy \div 2))
             b1 == IF pawn_exists(b0, mv, source_piece)
                   THEN [b0 EXCEPT
                           !.hash = set_en_passant_file(b0.hash, b0.en_passant_destination,
                                                        new_destination),
                           !.en_passant_destination = new_destination]
                   ELSE b0
         IN Put(Put(b1, mv.source, None), mv.destination, source_piece)
    ELSE \* Default
         LET b1 == Put(Put(b0, mv.source, None), mv.destination, source_piece)
         IN IF kind(source_piece) = King
            THEN WithRights(b1, without_color(b1.castling_rights, b1.hash,
                                              color(source_piece)))
            ELSE IF kind(source_piece) = Rook
                    /\ mv.source = at(7, back_rank(color(source_piece)))
            THEN WithRights(b1, without_kingside(b1.castling_rights, b1.hash,
                                                 color(source_piece)))
            ELSE IF kind(source_piece) = Rook
                    /\ mv.source = at(0, back_rank(color(source_piece)))
            THEN WithRights(b1, without_queenside(b1.castling_rights, b1.hash,
                                                  color(source_piece)))
            ELSE b1

\* A variant that counts a full move after White's move instead of Black's.
UpdateClocksAfterWhite(b2, captured, source_piece) ==
    LET increased == u32_wrapping_add_1(b2.halfmoves_since_event)
        new_color == Not(b2.color_to_move)
    IN [b2 EXCEPT
          !.halfmoves_since_event =
              IF captured # None \/ kind(source_piece) = Pawn THEN U32(0) ELSE increased,
          !.hash = toggle_move(b2.hash),
          !.color_to_move = new_color,
          !.fullmoves = IF new_color = Black THEN u32_wrapping_add_1(@) ELSE @]

\* The end of make_move: the halfmove clock is increased and then reset on
\* a capture or a pawn move, the side to move and its hash key are toggled
\* and the fullmove number is increased when White is to move next.
UpdateClocks(b2, captured, source_piece) ==
    LET increased == u32_wrapping_add_1(b2.halfmoves_since_event)
        new_color == Not(b2.color_to_move)
    IN [b2 EXCEPT
          !.halfmoves_since_event =
              IF captured # None \/ kind(source_piece) = Pawn THEN U32(0) ELSE increased,
          !.hash = toggle_move(b2.hash),
          !.color_to_move = new_color,
          !.fullmoves = IF new_color = White THEN u32_wrapping_add_1(@) ELSE @]

\* One of the two += 1 of make_move overflows: a build with overflow checks
\* panics there.
MakeMoveOverflows(b) ==
    \/ b.halfmoves_since_event = U32_MAX
    \/ b.color_to_move = Black /\ b.fullmoves = U32_MAX

make_move(b, mv) ==
    LET source_piece == StorageGet(b.pieces, mv.source)
        dest == StorageGet(b.pieces, mv.destination)
        destination_piece == IF dest = None THEN None ELSE kind(dest)
        dx == file(mv.destination) - file(mv.source)
        dy == rank(mv.destination) - rank(mv.source)
        is_en_passant == kind(source_piece) = Pawn /\ destination_piece = None /\ dx # 0
        unmake_info ==
            [piece |-> kind(source_piece),
             source |-> mv.source,
             destination |-> mv.destination,
             captured |-> IF is_en_passant THEN Pawn ELSE destination_piece,
             old_en_passant_destination |-> b.en_passant_destination,
             old_castling_rights |-> b.castling_rights,
             old_halfmoves_since_event |-> b.halfmoves_since_event]
        b0 == [b EXCEPT
                 !.hash = set_en_passant_file(b.hash, b.en_passant_destination, None),
                 !.en_passant_destination = None]
        b2 == MakeMoveBranch(b0, mv, source_piece, destination_piece, dx, dy)
    IN [board |-> UpdateClocks(b2, unmake_info.captured, source_piece),
        um |-> unmake_info]

(***************************************************************************)
(* board.rs: unmake_last_move.                                             *)
(***************************************************************************)
\* A variant that never puts a captured piece back.
UnmakeBranchWithoutCapture(b1, um, dx) ==
    Put(Put(b1, um.destination, None), um.source, PieceNew(um.piece, b1.color_to_move))

UnmakeBranch(b1, um, dx) ==
    LET mover == b1.color_to_move
    IN IF um.piece = Pawn /\ um.destination = um.old_en_passant_destination
       THEN \* En passant
            Put(Put(Put(b1, um.destination, None),
                    um.source, PieceNew(um.piece, mover)),
                at(file(um.destination), rank(um.source)), PieceNew(Pawn, Not(mover)))
       ELSE IF um.piece = King /\ dx = 0 - 2
       THEN \* Long castle
            Put(Put(Put(Put(b1, um.destination, None),
                        um.source, PieceNew(um.piece, mover)),
                    at(3, rank(um.source)), None),
                at(0, rank(um.source)), PieceNew(Rook, mover))
       ELSE IF um.piece = King /\ dx = 2
       THEN \* Short castle
            Put(Put(Put(Put(b1, um.destination, None),
                        um.source, PieceNew(um.piece, mover)),
                    at(5, rank(um.source)), None),
                at(7, rank(um.source)), PieceNew(Rook, mover))
       ELSE Put(Put(b1, um.destination,
                    IF um.captured = None THEN None
                    ELSE PieceNew(um.captured, Not(mover))),
                um.source, PieceNew(um.piece, mover))

unmake_last_move(b, um) ==
    LET dx == file(um.destination) - file(um.source)
        c == Not(b.color_to_move)
        h1 == set_en_passant_file(toggle_move(b.hash), b.en_passant_destination,
                                  um.old_en_passant_destination)
        h2 == update_castling_rights(h1, b.castling_rights, um.old_castling_rights)
        b1 == [b EXCEPT
                 !.hash = h2,
                 !.color_to_move = c,
                 !.halfmoves_since_event = um.old_halfmoves_since_event,
                 !.fullmoves = IF c = Black THEN u32_wrapping_sub_1(@) ELSE @,
                 !.en_passant_destination = um.old_en_passant_destination,
                 !.castling_rights = um.old_castling_rights]
    IN UnmakeBranch(b1, um, dx)

(***************************************************************************)
(* movegen/precomputed_bitboards.rs: the attack sets of the leapers and    *)
(* the unobstructed slider attack sets, per square.                        *)
(***************************************************************************)
Offsets(sq, offs) ==
    {translated_by(sq, o[1], o[2]) : o \in offs} \ {None}

white_pawn_attacks(sq) == Offsets(sq, {<<0 - 1, 1>>, <<1, 1>>})
black_pawn_attacks(sq) == Offsets(sq, {<<0 - 1, 0 - 1>>, <<1, 0 - 1>>})

KnightOffsets ==
    {<<1, 2>>, <<2, 1>>, <<2, 0 - 1>>, <<1, 0 - 2>>,
     <<0 - 1, 0 - 2>>, <<0 - 2, 0 - 1>>, <<0 - 2, 1>>, <<0 - 1, 2>>}
KingOffsets ==
    {<<1, 0>>, <<1, 1>>, <<0, 1>>, <<0 - 1, 1>>,
     <<0 - 1, 0>>, <<0 - 1, 0 - 1>>, <<0, 0 - 1>>, <<1, 0 - 1>>}

knight_attacks(sq) == Offsets(sq, KnightOffsets)
king_attacks(sq) == Offsets(sq, KingOffsets)

unobstructed_rook_attacks(sq) ==
    {t \in Squares : t # sq /\ (file(t) = file(sq) \/ rank(t) = rank(sq))}
unobstructed_bishop_attacks(sq) ==
    {t \in Squares : t # sq /\ (file(t) - file(sq) = rank(t) - rank(sq)
                                \/ file(t) - file(sq) = rank(sq) - rank(t))}

(***************************************************************************)
(* movegen.rs / movegen/sliding.rs: ray walking.  ray_bitboard stops at,   *)
(* and includes, the first occupied square.                                *)
(***************************************************************************)
RECURSIVE ray_bitboard(_, _, _, _)
ray_bitboard(origin, occupancy_bitboard, dx, dy) ==
    LET new_sq == translated_by(origin, dx, dy)
    IN IF new_sq = None THEN {}
       ELSE IF new_sq \in occupancy_bitboard THEN {new_sq}
       ELSE {new_sq} \cup ray_bitboard(new_sq, occupancy_bitboard, dx, dy)

ray_bitboard_empty(origin, dx, dy) == ray_bitboard(origin, {}, dx, dy)

RookOffsets == {<<0 - 1, 0>>, <<1, 0>>, <<0, 0 - 1>>, <<0, 1>>}
BishopOffsets == {<<0 - 1, 0 - 1>>, <<0 - 1, 1>>, <<1, 0 - 1>>, <<1, 1>>}

generate_rook_attack_set(origin, occupancy_bitboard) ==
    UNION {ray_bitboard(origin, occupancy_bitboard, o[1], o[2]) : o \in RookOffsets}

generate_bishop_attack_set(origin, occupancy_bitboard) ==
    UNION {ray_bitboard(origin, occupancy_bitboard, o[1], o[2]) : o \in BishopOffsets}

(***************************************************************************)
(* movegen/sliding.rs: the sliding attack tables.                          *)
(*                                                                         *)
(* A u64 is kept as four 16-bit limbs <<l0, l1, l2, l3>>, least            *)
(* significant first, so that the arithmetic of the table index keeps its  *)
(* 64-bit width.  The magic numbers below are the source's decimal         *)
(* constants written in limbs; the relevant occupancy masks are written as *)
(* the bitboards (sets of squares) they are.                               *)
(***************************************************************************)

RECURSIVE SumPow(_)
SumPow(S) ==
    IF S = {} THEN 0
    ELSE LET x == CHOOSE y \in S : TRUE
         IN 2 ^ (x % 16) + SumPow(S \ {x})

\* Bitboard -> u64 and back.
ToU64(bitboard) == [j \in 1 .. 4 |-> SumPow({s \in bitboard : s \div 16 = j - 1})]
FromU64(v) == {s \in Squares : Bit(v[(s \div 16) + 1], s % 16) = 1}

\* a - b on u64, wrapping modulo 2^64.
wrapping_sub(a, b) ==
    LET d1 == a[1] - b[1]
        b1 == IF d1 < 0 THEN 1 ELSE 0
        d2 == a[2] - b[2] - b1
        b2 == IF d2 < 0 THEN 1 ELSE 0
        d3 == a[3] - b[3] - b2
        b3 == IF d3 < 0 THEN 1 ELSE 0
        d4 == a[4] - b[4] - b3
        b4 == IF d4 < 0 THEN 1 ELSE 0
    IN <<d1 + b1 * Limb, d2 + b2 * Limb, d3 + b3 * Limb, d4 + b4 * Limb>>

\* a + b on u64, wrapping modulo 2^64.
wrapping_add(a, b) ==
    LET s1 == a[1] + b[1]
        s2 == a[2] + b[2] + (s1 \div Limb)
        s3 == a[3] + b[3] + (s2 \div Limb)
        s4 == a[4] + b[4] + (s3 \div Limb)
    IN <<s1 % Limb, s2 % Limb, s3 % Limb, s4 % Limb>>

\* v >> (64 - bits), for bits <= 16: the top bits of the top limb.
TopBits(v, bits) == v[4] \div (2 ^ (16 - bits))

ROOK_MAGIC_NUMBERS ==
  <<
     <<34899, 16384, 32, 32896>>, <<4096, 8192, 73, 1344>>,
     <<2560, 49186, 4224, 1536>>, <<4096, 18436, 8448, 2816>>,
     <<6, 4117, 2048, 256>>, <<1544, 4128, 37888, 11264>>,
     <<37896, 0, 258, 4608>>, <<16512, 293, 2304, 16512>>,
     <<34848, 16384, 32768, 16417>>, <<512, 32801, 64, 32770>>,
     <<4097, 128, 32864, 129>>, <<18433, 1152, 32784, 1024>>,
     <<128, 4, 32776, 64>>, <<1040, 40, 10, 16450>>,
     <<51201, 4, 2, 2050>>, <<35, 33858, 0, 161>>,
     <<96, 3136, 32896, 16384>>, <<580, 1248, 2112, 10320>>,
     <<770, 4128, 16640, 4096>>, <<8232, 4096, 1280, 1217>>,
     <<1024, 10240, 33152, 384>>, <<8728, 5120, 256, 1>>,
     <<4226, 2049, 3072, 10272>>, <<18464, 65, 32, 4>>,
     <<16392, 32800, 32770, 64>>, <<53248, 16385, 8192, 64>>,
     <<128, 32784, 24584, 4097>>, <<4096, 32896, 2048, 256>>,
     <<256, 24, 20501, 6>>, <<128, 32804, 8704, 32768>>,
     <<2328, 16, 516, 20480>>, <<128, 33281, 4096, 32772>>,
     <<34, 36992, 16384, 20872>>, <<1088, 64, 8208, 5632>>,
     <<4096, 384, 32928, 2>>, <<8204, 256, 4097, 18>>,
     <<5377, 20736, 18432, 41728>>, <<5120, 128, 32770, 19585>>,
     <<1314, 5120, 20520, 32776>>, <<128, 960, 48, 32802>>,
     <<32768, 128, 42304, 256>>, <<32, 33025, 16384, 1088>>,
     <<64, 24577, 4352, 2048>>, <<72, 257, 8208, 24704>>,
     <<16, 257, 1288, 1>>, <<32896, 512, 17408, 642>>,
     <<8, 274, 4, 642>>, <<12, 4226, 33, 0>>,
     <<512, 802, 16521, 1200>>, <<640, 32832, 40960, 33408>>,
     <<640, 33440, 272, 8272>>, <<128, 16, 32776, 0>>,
     <<384, 1288, 128, 20>>, <<512, 38024, 16, 37126>>,
     <<1280, 512, 4, 16385>>, <<32832, 128, 808, 2080>>,
     <<265, 16768, 4704, 256>>, <<8209, 16512, 257, 3136>>,
     <<33170, 16416, 8, 17410>>, <<257, 24720, 9225, 5152>>,
     <<4098, 1032, 288, 4386>>, <<2081, 18, 4, 129>>,
     <<644, 4097, 2050, 0>>, <<134, 65, 16932, 32772>>
  >>

ROOK_RELEVANT_BITS ==
  <<
     12, 11, 11, 11, 11, 11, 11, 12, 11, 10, 10, 10, 10, 10, 10, 12,
     11, 10, 10, 10, 10, 10, 10, 12, 11, 10, 10, 10, 10, 10, 10, 12,
     11, 10, 10, 10, 10, 10, 10, 12, 11, 10, 10, 10, 10, 10, 10, 12,
     11, 10, 10, 10, 10, 10, 10, 12, 12, 11, 11, 11, 11, 11, 11, 12
  >>

ROOK_RELEVANT_OCCUPANCY_MASKS ==
  <<
     {1, 2, 3, 4, 5, 6, 8, 16, 24, 32, 40, 48},
     {2, 3, 4, 5, 6, 9, 17, 25, 33, 41, 49},
     {1, 3, 4, 5, 6, 10, 18, 26, 34, 42, 50},
     {1, 2, 4, 5, 6, 11, 19, 27, 35, 43, 51},
     {1, 2, 3, 5, 6, 12, 20, 28, 36, 44, 52},
     {1, 2, 3, 4, 6, 13, 21, 29, 37, 45, 53},
     {1, 2, 3, 4, 5, 14, 22, 30, 38, 46, 54},
     {1, 2, 3, 4, 5, 6, 15, 23, 31, 39, 47, 55},
     {9, 10, 11, 12, 13, 14, 16, 24, 32, 40, 48},
     {10, 11, 12, 13, 14, 17, 25, 33, 41, 49},
     {9, 11, 12, 13, 14, 18, 26, 34, 42, 50},
     {9, 10, 12, 13, 14, 19, 27, 35, 43, 51},
     {9, 10, 11, 13, 14, 20, 28, 36, 44, 52},
     {9, 10, 11, 12, 14, 21, 29, 37, 45, 53},
     {9, 10, 11, 12, 13, 22, 30, 38, 46, 54},
     {9, 10, 11, 12, 13, 14, 23, 31, 39, 47, 55},
     {8, 17, 18, 19, 20, 21, 22, 24, 32, 40, 48},
     {9, 18, 19, 20, 21, 22, 25, 33, 41, 49},
     {10, 17, 19, 20, 21, 22, 26, 34, 42, 50},
     {11, 17, 18, 20, 21, 22, 27, 35, 43, 51},
     {12, 17, 18, 19, 21, 22, 28, 36, 44, 52},
     {13, 17, 18, 19, 20, 22, 29, 37, 45, 53},
     {14, 17, 18, 19, 20, 21, 30, 38, 46, 54},
     {15, 17, 18, 19, 20, 21, 22, 31, 39, 47, 55},
     {8, 16, 25, 26, 27, 28, 29, 30, 32, 40, 48},
     {9, 17, 26, 27, 28, 29, 30, 33, 41, 49},
     {10, 18, 25, 27, 28, 29, 30, 34, 42, 50},
     {11, 19, 25, 26, 28, 29, 30, 35, 43, 51},
     {12, 20, 25, 26, 27, 29, 30, 36, 44, 52},
     {13, 21, 25, 26, 27, 28, 30, 37, 45, 53},
     {14, 22, 25, 26, 27, 28, 29, 38, 46, 54},
     {15, 23, 25, 26, 27, 28, 29, 30, 39, 47, 55},
     {8, 16, 24, 33, 34, 35, 36, 37, 38, 40, 48},
     {9, 17, 25, 34, 35, 36, 37, 38, 41, 49},
     {10, 18, 26, 33, 35, 36, 37, 38, 42, 50},
     {11, 19, 27, 33, 34, 36, 37, 38, 43, 51},
     {12, 20, 28, 33, 34, 35, 37, 38, 44, 52},
     {13, 21, 29, 33, 34, 35, 36, 38, 45, 53},
     {14, 22, 30, 33, 34, 35, 36, 37, 46, 54},
     {15, 23, 31, 33, 34, 35, 36, 37, 38, 47, 55},
     {8, 16, 24, 32, 41, 42, 43, 44, 45, 46, 48},
     {9, 17, 25, 33, 42, 43, 44, 45, 46, 49},
     {10, 18, 26, 34, 41, 43, 44, 45, 46, 50},
     {11, 19, 27, 35, 41, 42, 44, 45, 46, 51},
     {12, 20, 28, 36, 41, 42, 43, 45, 46, 52},
     {13, 21, 29, 37, 41, 42, 43, 44, 46, 53},
     {14, 22, 30, 38, 41, 42, 43, 44, 45, 54},
     {15, 23, 31, 39, 41, 42, 43, 44, 45, 46, 55},
     {8, 16, 24, 32, 40, 49, 50, 51, 52, 53, 54},
     {9, 17, 25, 33, 41, 50, 51, 52, 53, 54},
     {10, 18, 26, 34, 42, 49, 51, 52, 53, 54},
     {11, 19, 27, 35, 43, 49, 50, 52, 53, 54},
     {12, 20, 28, 36, 44, 49, 50, 51, 53, 54},
     {13, 21, 29, 37, 45, 49, 50, 51, 52, 54},
     {14, 22, 30, 38, 46, 49, 50, 51, 52, 53},
     {15, 23, 31, 39, 47, 49, 50, 51, 52, 53, 54},
     {8, 16, 24, 32, 40, 48, 57, 58, 59, 60, 61, 62},
     {9, 17, 25, 33, 41, 49, 58, 59, 60, 61, 62},
     {10, 18, 26, 34, 42, 50, 57, 59, 60, 61, 62},
     {11, 19, 27, 35, 43, 51, 57, 58, 60, 61, 62},
     {12, 20, 28, 36, 44, 52, 57, 58, 59, 61, 62},
     {13, 21, 29, 37, 45, 53, 57, 58, 59, 60, 62},
     {14, 22, 30, 38, 46, 54, 57, 58, 59, 60, 61},
     {15, 23, 31, 39, 47, 55, 57, 58, 59, 60, 61, 62}
  >>

BISHOP_MAGIC_NUMBERS ==
  <<
     <<32, 260, 772, 4256>>, <<20482, 1028, 1028, 16406>>,
     <<514, 4128, 16642, 2320>>, <<49168, 33282, 16582, 16404>>,
     <<1096, 0, 1284, 53252>>, <<2048, 2177, 2320, 2>>,
     <<1040, 8200, 17420, 17440>>, <<2064, 20504, 64, 8193>>,
     <<336, 2184, 2056, 2080>>, <<512, 7169, 838, 64>>,
     <<8224, 1160, 12452, 257>>, <<225, 136, 9236, 12288>>,
     <<2065, 4128, 4614, 32896>>, <<2112, 6164, 272, 8196>>,
     <<8192, 34336, 35074, 1545>>, <<8192, 514, 20514, 2305>>,
     <<256, 10245, 8897, 4130>>, <<8320, 4100, 16536, 2>>,
     <<10754, 32, 4, 2312>>, <<16404, 4608, 33112, 1>>,
     <<1, 33440, 272, 2052>>, <<2072, 8336, 128, 36866>>,
     <<1120, 2696, 69, 16516>>, <<4176, 9860, 33025, 0>>,
     <<4096, 6146, 8257, 136>>, <<835, 1608, 6145, 48>>,
     <<24640, 6153, 20492, 1024>>, <<32778, 26624, 128, 34818>>,
     <<8196, 1152, 33792, 768>>, <<128, 4624, 256, 1033>>,
     <<12288, 32898, 1088, 24596>>, <<256, 1537, 32, 6>>,
     <<8192, 2064, 1184, 4161>>, <<576, 16416, 2312, 2052>>,
     <<3073, 26, 6148, 4140>>, <<512, 32776, 2688, 560>>,
     <<8320, 16, 514, 8256>>, <<16640, 0, 66, 16>>,
     <<2057, 32769, 1088, 1043>>, <<130, 8325, 768, 4296>>,
     <<17408, 2064, 4112, 16674>>, <<1024, 45065, 18436, 0>>,
     <<4128, 768, 33, 49>>, <<4352, 18432, 257, 0>>,
     <<5120, 6658, 1027, 1600>>, <<9280, 32, 2064, 8224>>,
     <<41604, 2560, 258, 32>>, <<6656, 296, 514, 16898>>,
     <<16, 576, 33796, 12288>>, <<2049, 2080, 9346, 16421>>,
     <<1042, 4232, 6804, 12360>>, <<0, 16898, 33280, 64>>,
     <<2, 8385, 32, 8704>>, <<8192, 8834, 8352, 0>>,
     <<0, 37889, 8257, 8>>, <<4384, 90, 516, 8200>>,
     <<16384, 1416, 453, 32913>>, <<8192, 37000, 134, 0>>,
     <<34848, 272, 18, 1024>>, <<1024, 2180, 40961, 26689>>,
     <<513, 4354, 72, 1040>>, <<16778, 1040, 8224, 784>>,
     <<1037, 10241, 1032, 4096>>, <<26, 2178, 2054, 2368>>
  >>

BISHOP_RELEVANT_BITS ==
  <<
     6, 5, 5, 5, 5, 5, 5, 6, 5, 5, 5, 5, 5, 5, 5, 5,
     5, 5, 7, 7, 7, 7, 5, 5, 5, 5, 7, 9, 9, 7, 5, 5,
     5, 5, 7, 9, 9, 7, 5, 5, 5, 5, 7, 7, 7, 7, 5, 5,
     5, 5, 5, 5, 5, 5, 5, 5, 6, 5, 5, 5, 5, 5, 5, 6
  >>

BISHOP_RELEVANT_OCCUPANCY_MASKS ==
  <<
     {9, 18, 27, 36, 45, 54},
     {10, 19, 28, 37, 46},
     {9, 11, 20, 29, 38},
     {10, 12, 17, 21, 30},
     {11, 13, 18, 22, 25},
     {12, 14, 19, 26, 33},
     {13, 20, 27, 34, 41},
     {14, 21, 28, 35, 42, 49},
     {17, 26, 35, 44, 53},
     {18, 27, 36, 45, 54},
     {17, 19, 28, 37, 46},
     {18, 20, 25, 29, 38},
     {19, 21, 26, 30, 33},
     {20, 22, 27, 34, 41},
     {21, 28, 35, 42, 49},
     {22, 29, 36, 43, 50},
     {9, 25, 34, 43, 52},
     {10, 26, 35, 44, 53},
     {9, 11, 25, 27, 36, 45, 54},
     {10, 12, 26, 28, 33, 37, 46},
     {11, 13, 27, 29, 34, 38, 41},
     {12, 14, 28, 30, 35, 42, 49},
     {13, 29, 36, 43, 50},
     {14, 30, 37, 44, 51},
     {10, 17, 33, 42, 51},
     {11, 18, 34, 43, 52},
     {12, 17, 19, 33, 35, 44, 53},
     {9, 13, 18, 20, 34, 36, 41, 45, 54},
     {10, 14, 19, 21, 35, 37, 42, 46, 49},
     {11, 20, 22, 36, 38, 43, 50},
     {12, 21, 37, 44, 51},
     {13, 22, 38, 45, 52},
     {11, 18, 25, 41, 50},
     {12, 19, 26, 42, 51},
     {13, 20, 25, 27, 41, 43, 52},
     {14, 17, 21, 26, 28, 42, 44, 49, 53},
     {9, 18, 22, 27, 29, 43, 45, 50, 54},
     {10, 19, 28, 30, 44, 46, 51},
     {11, 20, 29, 45, 52},
     {12, 21, 30, 46, 53},
     {12, 19, 26, 33, 49},
     {13, 20, 27, 34, 50},
     {14, 21, 28, 33, 35, 49, 51},
     {22, 25, 29, 34, 36, 50, 52},
     {17, 26, 30, 35, 37, 51, 53},
     {9, 18, 27, 36, 38, 52, 54},
     {10, 19, 28, 37, 53},
     {11, 20, 29, 38, 54},
     {13, 20, 27, 34, 41},
     {14, 21, 28, 35, 42},
     {22, 29, 36, 41, 43},
     {30, 33, 37, 42, 44},
     {25, 34, 38, 43, 45},
     {17, 26, 35, 44, 46},
     {9, 18, 27, 36, 45},
     {10, 19, 28, 37, 46},
     {14, 21, 28, 35, 42, 49},
     {22, 29, 36, 43, 50},
     {30, 37, 44, 49, 51},
     {38, 41, 45, 50, 52},
     {33, 42, 46, 51, 53},
     {25, 34, 43, 52, 54},
     {17, 26, 35, 44, 53},
     {9, 18, 27, 36, 45, 54}
  >>

RookTable ==
    [rook |-> TRUE, magics |-> ROOK_MAGIC_NUMBERS, relevant_bits |-> ROOK_RELEVANT_BITS,
     relevant_occupancy_masks |-> ROOK_RELEVANT_OCCUPANCY_MASKS]
BishopTable ==
    [rook |-> FALSE, magics |-> BISHOP_MAGIC_NUMBERS, relevant_bits |-> BISHOP_RELEVANT_BITS,
     relevant_occupancy_masks |-> BISHOP_RELEVANT_OCCUPANCY_MASKS]

\* The table index of a relevant occupancy:
\* (relevant_occupancy_bitboard - magics[sq]) >> (64 - relevant_bits[sq]).
SlidingKey(table, sq, relevant_occupancy_bitboard) ==
    TopBits(wrapping_sub(ToU64(relevant_occupancy_bitboard), table.magics[sq + 1]),
            table.relevant_bits[sq + 1])

\* The greatest subset of mask, as a number, that is at most the number with
\* the bits hi.
GreatestSubsetAtMost(mask, hi) ==
    LET D == hi \ mask
    IN IF D = {} THEN hi
       ELSE LET d == CHOOSE x \in D : \A y \in D : y <= x
            IN {j \in hi : j > d} \cup {j \in mask : j < d}

\* compute() walks the subsets of the relevant mask in ascending numeric
\* order and stores each one's ray-walked attack set at its index, a later
\* subset overwriting an earlier one with the same index.  The entry at key
\* is therefore the attack set of the greatest subset c of the mask with
\* SlidingKey(c) = key: the mask itself if it has that index, and otherwise
\* the greatest subset at most the last number of the index's bucket,
\* (key * 2^(64 - bits) + 2^(64 - bits) - 1) + magic.
LastCombination(table, sq, key) ==
    LET mask == table.relevant_occupancy_masks[sq + 1]
        bits == table.relevant_bits[sq + 1]
        low == 2 ^ (16 - bits)
        top == wrapping_add(<<Limb - 1, Limb - 1, Limb - 1, key * low + low - 1>>,
                            table.magics[sq + 1])
    IN IF SlidingKey(table, sq, mask) = key THEN mask
       ELSE GreatestSubsetAtMost(mask, FromU64(top))

attack_sets(table, sq, key) ==
    IF table.rook
    THEN generate_rook_attack_set(sq, LastCombination(table, sq, key))
    ELSE generate_bishop_attack_set(sq, LastCombination(table, sq, key))

get_attack_set(table, sq, all_pieces_bitboard) ==
    LET relevant_occupancy_bitboard ==
            all_pieces_bitboard \cap table.relevant_occupancy_masks[sq + 1]
    IN attack_sets(table, sq, SlidingKey(table, sq, relevant_occupancy_bitboard))

(***************************************************************************)
(* movegen.rs: the legal move generator.                                   *)
(***************************************************************************)
\* Bitboard::iter yields the squares in ascending order.
RECURSIVE BitboardIter(_)
BitboardIter(bitboard) ==
    IF bitboard = {} THEN <<>>
    ELSE LET s == CHOOSE x \in bitboard : \A y \in bitboard : x <= y
         IN <<s>> \o BitboardIter(bitboard \ {s})

\* flat_map / extend: the concatenation of a sequence of sequences.
RECURSIVE Concat(_)
Concat(seqs) == IF seqs = <<>> THEN <<>> ELSE Head(seqs) \o Concat(Tail(seqs))

\* The sequence of <<square, piece>> of one color: kinds from Pawn to King,
\* squares ascending within a kind.
iter_single_color(st, c) ==
    Concat([k \in 1 .. 6 |->
              LET piece == PieceNew(k - 1, c)
                  sqs == BitboardIter(piece_bitboard(st, piece))
              IN [i \in 1 .. Len(sqs) |-> <<sqs[i], piece>>]])

get_pawn_push_bitboard(c, sq, all_pieces_bitboard) ==
    LET push_sq == translated_by(sq, 0, up(c))
        result == IF push_sq # None THEN {push_sq} \ all_pieces_bitboard ELSE {}
    IN IF rank(sq) = pawn_starting_rank(c) /\ Cardinality(result) = 1
       THEN result \cup ({translated_by(sq, 0, 2 * up(c))} \ all_pieces_bitboard)
       ELSE result

get_pseudolegal_attacks_bitboard(piece, sq, all_pieces_bitboard) ==
    CASE kind(piece) = Pawn ->
             IF is_white(color(piece)) THEN white_pawn_attacks(sq) ELSE black_pawn_attacks(sq)
      [] kind(piece) = Knight -> knight_attacks(sq)
      [] kind(piece) = King -> king_attacks(sq)
      [] kind(piece) = Bishop -> get_attack_set(BishopTable, sq, all_pieces_bitboard)
      [] kind(piece) = Rook -> get_attack_set(RookTable, sq, all_pieces_bitboard)
      [] kind(piece) = Queen ->
             get_attack_set(RookTable, sq, all_pieces_bitboard)
                 \cup get_attack_set(BishopTable, sq, all_pieces_bitboard)

\* enemy_pieces is the sequence of <<square, piece>> of the side not to move.
analyse_checks(enemy_pieces, all_pieces_bitboard, king_square) ==
    LET all_pieces_except_king_bitboard == all_pieces_bitboard \ {king_square}
        enemies == {enemy_pieces[i] : i \in 1 .. Len(enemy_pieces)}
        attack_set(e) ==
            get_pseudolegal_attacks_bitboard(e[2], e[1], all_pieces_except_king_bitboard)
        orthogonal_pin_rays ==
            UNION {get_attack_set(RookTable, e[1], all_pieces_except_king_bitboard) :
                     e \in {x \in enemies : /\ kind(x[2]) \in {Rook, Queen}
                                            /\ x[1] \in unobstructed_rook_attacks(king_square)}}
        diagonal_pin_rays ==
            UNION {get_attack_set(BishopTable, e[1], all_pieces_except_king_bitboard) :
                     e \in {x \in enemies : /\ kind(x[2]) \in {Bishop, Queen}
                                            /\ x[1] \in unobstructed_bishop_attacks(king_square)}}
        orthogonal_pin_mask ==
            get_attack_set(RookTable, king_square, all_pieces_bitboard) \cap orthogonal_pin_rays
        diagonal_pin_mask ==
            get_attack_set(BishopTable, king_square, all_pieces_bitboard) \cap diagonal_pin_rays
    IN [king_danger_mask |-> UNION {attack_set(e) : e \in enemies},
        checking_pieces_mask |-> {e[1] : e \in {x \in enemies : king_square \in attack_set(x)}},
        pinned_pieces_mask |-> orthogonal_pin_mask \cup diagonal_pin_mask]

\* The march of detect_en_passant_pin from sq in direction sx.
RECURSIVE EnPassantMarch(_, _, _, _, _, _, _)
EnPassantMarch(sq, sx, all_pieces_bitboard, enemy_rook_bitboard, enemy_pawn_bitboard, capturing_pawn_square, en_passant_destination) ==
    LET new_sq == translated_by(sq, sx, 0)
    IN IF new_sq = None THEN FALSE
       ELSE IF new_sq \in all_pieces_bitboard
       THEN IF new_sq \in enemy_rook_bitboard THEN TRUE
            ELSE IF \/ new_sq = capturing_pawn_square
                    \/ /\ new_sq \in enemy_pawn_bitboard
                       /\ file(new_sq) = file(en_passant_destination)
            THEN EnPassantMarch(new_sq, sx, all_pieces_bitboard, enemy_rook_bitboard,
                                enemy_pawn_bitboard, capturing_pawn_square,
                                en_passant_destination)
            ELSE FALSE
       ELSE EnPassantMarch(new_sq, sx, all_pieces_bitboard, enemy_rook_bitboard,
                           enemy_pawn_bitboard, capturing_pawn_square,
                           en_passant_destination)

\* dx is the capturing pawn's square index (as_u8) minus the king's file.
detect_en_passant_pin(b, all_pieces_bitboard, capturing_pawn_square, king_square, en_passant_destination) ==
    IF rank(king_square) # rank(capturing_pawn_square) THEN FALSE
    ELSE LET dx == capturing_pawn_square - file(king_square)
             sx == signum(dx)
         IN EnPassantMarch(king_square, sx, all_pieces_bitboard,
                           piece_bitboard(b.pieces, PieceNew(Rook, Not(b.color_to_move))),
                           piece_bitboard(b.pieces, PieceNew(Pawn, Not(b.color_to_move))),
                           capturing_pawn_square, en_passant_destination)

\* Board::castling_rights_for_color: the rights of one color as a pair of
\* flags.  Its body is not part of the sources at hand; it is taken to read
\* the two bits of the color.
castling_rights_for_color(b, c) ==
    [kingside |-> kingside(b.castling_rights, c),
     queenside |-> queenside(b.castling_rights, c)]

\* The body of the per-piece loop up to the emission: the refined move set of
\* the piece on sq.
MoveSet(b, checks_analysis, all_pieces_bitboard, friendly_pieces_bitboard, enemy_pieces_bitboard, king_square, sq, piece) ==
    LET piece_kind == kind(piece)
        c == b.color_to_move
        is_check == checks_analysis.checking_pieces_mask # {}
        pseudolegal ==
            IF piece_kind = Pawn
            THEN LET attacks == IF is_white(c) THEN white_pawn_attacks(sq)
                                ELSE black_pawn_attacks(sq)
                     pushes == get_pawn_push_bitboard(c, sq, all_pieces_bitboard)
                     valid_capture_destinations ==
                         enemy_pieces_bitboard \cup
                         (IF /\ b.en_passant_destination # None
                             /\ ~detect_en_passant_pin(b, all_pieces_bitboard, sq, king_square,
                                                       b.en_passant_destination)
                          THEN {b.en_passant_destination}
                          ELSE {})
                 IN pushes \cup (attacks \cap valid_capture_destinations)
            ELSE get_pseudolegal_attacks_bitboard(piece, sq, all_pieces_bitboard)
        not_friendly == pseudolegal \ friendly_pieces_bitboard
        \* Prevent the king from stepping into check.
        safe == IF piece_kind = King
                THEN not_friendly \ checks_analysis.king_danger_mask
                ELSE not_friendly
        \* Handle pins.
        unpinned ==
            IF sq \in checks_analysis.pinned_pieces_mask
            THEN safe \cap ray_bitboard_empty(king_square,
                                              signum(file(sq) - file(king_square)),
                                              signum(rank(sq) - rank(king_square)))
            ELSE safe
        \* Single check: capture the checking piece or interpose.
        checking_piece_sq ==
            CHOOSE x \in checks_analysis.checking_pieces_mask :
                \A y \in checks_analysis.checking_pieces_mask : x <= y
        checking_piece == StorageGet(b.pieces, checking_piece_sq)
        valid_moves_mask ==
            {checking_piece_sq} \cup
            (IF kind(checking_piece) \in {Bishop, Rook, Queen}
             THEN ray_bitboard(king_square, all_pieces_bitboard,
                               signum(file(checking_piece_sq) - file(king_square)),
                               signum(rank(checking_piece_sq) - rank(king_square)))
             ELSE {})
    IN IF is_check /\ piece_kind # King THEN unpinned \cap valid_moves_mask ELSE unpinned

\* A variant that promotes to a queen only.
EmitMovesQueenOnly(c, sq, piece_kind, move_set) ==
    LET destinations == BitboardIter(move_set)
    IN [i \in 1 .. Len(destinations) |->
          IF piece_kind = Pawn /\ rank(destinations[i]) = promotion_rank(c)
          THEN Move(sq, destinations[i], Queen)
          ELSE Move(sq, destinations[i], None)]

\* The emission of one piece's move set: destinations ascending, a pawn
\* reaching the promotion rank expanded into the four promotions.
EmitMoves(c, sq, piece_kind, move_set) ==
    LET destinations == BitboardIter(move_set)
    IN Concat([i \in 1 .. Len(destinations) |->
                 IF /\ piece_kind = Pawn
                    /\ rank(destinations[i]) = promotion_rank(c)
                 THEN <<Move(sq, destinations[i], Queen), Move(sq, destinations[i], Rook),
                        Move(sq, destinations[i], Knight), Move(sq, destinations[i], Bishop)>>
                 ELSE <<Move(sq, destinations[i], None)>>])

\* The castling part of compute_legal_moves: kingside, then queenside.
CastlingMoves(b, checks_analysis, all_pieces_bitboard) ==
    LET c == b.color_to_move
        castling_rights == castling_rights_for_color(b, c)
        r == back_rank(c)
        is_check == checks_analysis.checking_pieces_mask # {}
        kingside_castle_clear_mask == {at(5, r), at(6, r)}
        queenside_castle_clear_mask == {at(1, r), at(2, r), at(3, r)}
        queenside_castle_danger_mask == {at(2, r), at(3, r)}
    IN (IF /\ castling_rights.kingside
           /\ kingside_castle_clear_mask
                  \cap (all_pieces_bitboard \cup checks_analysis.king_danger_mask) = {}
           /\ ~is_check
           /\ StorageGet(b.pieces, at(7, r)) = PieceNew(Rook, c)
        THEN <<Move(at(4, r), at(6, r), None)>>
        ELSE <<>>)
       \o
       (IF /\ castling_rights.queenside
           /\ queenside_castle_clear_mask \cap all_pieces_bitboard = {}
           /\ queenside_castle_danger_mask \cap checks_analysis.king_danger_mask = {}
           /\ ~is_check
           /\ StorageGet(b.pieces, at(0, r)) = PieceNew(Rook, c)
        THEN <<Move(at(4, r), at(2, r), None)>>
        ELSE <<>>)

\* The start of compute_legal_moves: the pieces of the two sides, the king
\* of the side to move and the analysis of the checks on it.  The boards of
\* this model always hold that king.
ChecksAnalysis(b) ==
    LET friendly_pieces == iter_single_color(b.pieces, b.color_to_move)
        enemy_pieces == iter_single_color(b.pieces, Not(b.color_to_move))
        all_pieces_bitboard ==
            {friendly_pieces[i][1] : i \in 1 .. Len(friendly_pieces)}
                \cup {enemy_pieces[i][1] : i \in 1 .. Len(enemy_pieces)}
        king_square ==
            friendly_pieces[CHOOSE i \in 1 .. Len(friendly_pieces) :
                                kind(friendly_pieces[i][2]) = King][1]
    IN analyse_checks(enemy_pieces, all_pieces_bitboard, king_square)

\* compute_legal_moves: the move list, in the order the code pushes it.
compute_legal_moves(b) ==
    LET c == b.color_to_move
        friendly_pieces == iter_single_color(b.pieces, c)
        enemy_pieces == iter_single_color(b.pieces, Not(c))
        friendly_pieces_bitboard == {friendly_pieces[i][1] : i \in 1 .. Len(friendly_pieces)}
        enemy_pieces_bitboard == {enemy_pieces[i][1] : i \in 1 .. Len(enemy_pieces)}
        all_pieces_bitboard == friendly_pieces_bitboard \cup enemy_pieces_bitboard
        king_square ==
            friendly_pieces[CHOOSE i \in 1 .. Len(friendly_pieces) :
                                kind(friendly_pieces[i][2]) = King][1]
        checks_analysis == ChecksAnalysis(b)
        double_check == Cardinality(checks_analysis.checking_pieces_mask) > 1
    IN Concat([i \in 1 .. Len(friendly_pieces) |->
                 IF kind(friendly_pieces[i][2]) # King /\ double_check
                 THEN <<>>
                 ELSE EmitMoves(c, friendly_pieces[i][1], kind(friendly_pieces[i][2]),
                                MoveSet(b, checks_analysis, all_pieces_bitboard,
                                        friendly_pieces_bitboard, enemy_pieces_bitboard,
                                        king_square, friendly_pieces[i][1],
                                        friendly_pieces[i][2]))])
       \o CastlingMoves(b, checks_analysis, all_pieces_bitboard)

(***************************************************************************)
(* The rules of chess the generator is judged against.  Attacks are found  *)
(* by walking the rays over the actual occupancy; a move is legal when it  *)
(* is pseudo-legal and, once made, leaves the mover's king unattacked.     *)
(***************************************************************************)
Occupancy(st) == {s \in Squares : StorageGet(st, s) # None}

ColorBitboard(st, c) == {s \in Squares : StorageGet(st, s) # None /\ color(StorageGet(st, s)) = c}

\* The squares attacked by the piece standing on sq.
AttackedFrom(st, sq) ==
    LET piece == StorageGet(st, sq)
    IN CASE kind(piece) = Pawn ->
                Offsets(sq, {<<0 - 1, up(color(piece))>>, <<1, up(color(piece))>>})
         [] kind(piece) = Knight -> Offsets(sq, KnightOffsets)
         [] kind(piece) = King -> Offsets(sq, KingOffsets)
         [] kind(piece) = Bishop ->
                UNION {ray_bitboard(sq, Occupancy(st), o[1], o[2]) : o \in BishopOffsets}
         [] kind(piece) = Rook ->
                UNION {ray_bitboard(sq, Occupancy(st), o[1], o[2]) : o \in RookOffsets}
         [] kind(piece) = Queen ->
                UNION {ray_bitboard(sq, Occupancy(st), o[1], o[2]) :
                         o \in RookOffsets \cup BishopOffsets}

IsAttacked(st, sq, by) == \E s \in ColorBitboard(st, by) : sq \in AttackedFrom(st, s)

KingSquare(st, c) == CHOOSE s \in Squares : StorageGet(st, s) = PieceNew(King, c)

InCheck(st, c) == IsAttacked(st, KingSquare(st, c), Not(c))

Promotions == {Queen, Rook, Knight, Bishop}

\* The destinations of the piece on sq by the rules of movement alone.
PseudoLegalDestinations(b, sq) ==
    LET st == b.pieces
        c == b.color_to_move
        piece == StorageGet(st, sq)
        occ == Occupancy(st)
        one == translated_by(sq, 0, up(c))
        two == translated_by(sq, 0, 2 * up(c))
        pushes ==
            IF one = None \/ one \in occ THEN {}
            ELSE {one} \cup (IF rank(sq) = pawn_starting_rank(c) /\ two \notin occ
                             THEN {two} ELSE {})
        captures ==
            AttackedFrom(st, sq) \cap
            (ColorBitboard(st, Not(c)) \cup
             (IF b.en_passant_destination # None THEN {b.en_passant_destination} ELSE {}))
    IN IF kind(piece) = Pawn THEN pushes \cup captures
       ELSE AttackedFrom(st, sq) \ ColorBitboard(st, c)

\* Castling by the rules: the right is held, king and rook stand on their
\* squares, the squares between them are empty, the king is not in check and
\* does not cross an attacked square.  (That it does not land on one is part
\* of legality.)
PseudoLegalCastling(b) ==
    LET st == b.pieces
        c == b.color_to_move
        r == back_rank(c)
        ready == /\ StorageGet(st, at(4, r)) = PieceNew(King, c)
                 /\ ~IsAttacked(st, at(4, r), Not(c))
    IN (IF /\ ready
           /\ kingside(b.castling_rights, c)
           /\ StorageGet(st, at(7, r)) = PieceNew(Rook, c)
           /\ StorageGet(st, at(5, r)) = None
           /\ StorageGet(st, at(6, r)) = None
           /\ ~IsAttacked(st, at(5, r), Not(c))
        THEN {Move(at(4, r), at(6, r), None)} ELSE {})
       \cup
       (IF /\ ready
           /\ queenside(b.castling_rights, c)
           /\ StorageGet(st, at(0, r)) = PieceNew(Rook, c)
           /\ StorageGet(st, at(1, r)) = None
           /\ StorageGet(st, at(2, r)) = None
           /\ StorageGet(st, at(3, r)) = None
           /\ ~IsAttacked(st, at(3, r), Not(c))
        THEN {Move(at(4, r), at(2, r), None)} ELSE {})

PseudoLegalMoves(b) ==
    LET c == b.color_to_move
        of(sq) ==
            LET dests == PseudoLegalDestinations(b, sq)
                promoting == IF kind(StorageGet(b.pieces, sq)) = Pawn
                             THEN {d \in dests : rank(d) = promotion_rank(c)}
                             ELSE {}
            IN {Move(sq, d, None) : d \in dests \ promoting}
               \cup {Move(sq, d, k) : d \in promoting, k \in Promotions}
    IN UNION {of(sq) : sq \in ColorBitboard(b.pieces, c)} \cup PseudoLegalCastling(b)

LegalMoves(b) ==
    {m \in PseudoLegalMoves(b) : ~InCheck(make_move(b, m).board.pieces, b.color_to_move)}

(***************************************************************************)
(* The board in play: a position is set up with Board::new, legal moves    *)
(* are made and unmade in LIFO order, and the generator is asked for the   *)
(* moves of the current position.                                          *)
(***************************************************************************)
\* The positions the runs start from, as the arguments of Board::new: the
\* 64-entry piece array (A1 first, rank by rank), the side to move, the
\* en-passant destination, the castling rights and the two clocks.
SeedPositions ==
    LET e == None
        wP == PieceNew(Pawn, White)     bP == PieceNew(Pawn, Black)
        wN == PieceNew(Knight, White)   bN == PieceNew(Knight, Black)
        wB == PieceNew(Bishop, White)   bB == PieceNew(Bishop, Black)
        wR == PieceNew(Rook, White)     bR == PieceNew(Rook, Black)
        wQ == PieceNew(Queen, White)    bQ == PieceNew(Queen, Black)
        wK == PieceNew(King, White)     bK == PieceNew(King, Black)
    IN <<
       \* perft.rs:54, the starting position
       \* rnbqkbnr/pppppppp/8/8/8/8/PPPPPPPP/RNBQKBNR w KQkq - 0 1
       [pieces |-> <<
            wR, wN, wB, wQ, wK, wB, wN, wR,
            wP, wP, wP, wP, wP, wP, wP, wP,
             e,  e,  e,  e,  e,  e,  e,  e,
             e,  e,  e,  e,  e,  e,  e,  e,
             e,  e,  e,  e,  e,  e,  e,  e,
             e,  e,  e,  e,  e,  e,  e,  e,
            bP, bP, bP, bP, bP, bP, bP, bP,
            bR, bN, bB, bQ, bK, bB, bN, bR>>,
        color_to_move |-> White, en_passant_destination |-> None,
        castling_rights |-> CastlingRightsNew(TRUE, TRUE, TRUE, TRUE),
        halfmoves_since_event |-> U32(0), fullmoves |-> U32(1)],
       \* movegen.rs:629, test_legal_castling
       \* r3k2r/8/8/8/8/8/8/R3K2R w KQkq - 0 1
       [pieces |-> <<
            wR,  e,  e,  e, wK,  e,  e, wR,
             e,  e,  e,  e,  e,  e,  e,  e,
             e,  e,  e,  e,  e,  e,  e,  e,
             e,  e,  e,  e,  e,  e,  e,  e,
             e,  e,  e,  e,  e,  e,  e,  e,
             e,  e,  e,  e,  e,  e,  e,  e,
             e,  e,  e,  e,  e,  e,  e,  e,
            bR,  e,  e,  e, bK,  e,  e, bR>>,
        color_to_move |-> White, en_passant_destination |-> None,
        castling_rights |-> CastlingRightsNew(TRUE, TRUE, TRUE, TRUE),
        halfmoves_since_event |-> U32(0), fullmoves |-> U32(1)],
       \* movegen.rs:680, test_promotions
       \* 8/P7/8/8/8/8/8/K6k w - - 0 1
       [pieces |-> <<
            wK,  e,  e,  e,  e,  e,  e, bK,
             e,  e,  e,  e,  e,  e,  e,  e,
             e,  e,  e,  e,  e,  e,  e,  e,
             e,  e,  e,  e,  e,  e,  e,  e,
             e,  e,  e,  e,  e,  e,  e,  e,
             e,  e,  e,  e,  e,  e,  e,  e,
            wP,  e,  e,  e,  e,  e,  e,  e,
             e,  e,  e,  e,  e,  e,  e,  e>>,
        color_to_move |-> White, en_passant_destination |-> None,
        castling_rights |-> CastlingRightsNew(FALSE, FALSE, FALSE, FALSE),
        halfmoves_since_event |-> U32(0), fullmoves |-> U32(1)],
       \* perft.rs:72, perft position 3
       \* 8/2p5/3p4/KP5r/1R3p1k/8/4P1P1/8 w - - 0 1
       [pieces |-> <<
             e,  e,  e,  e,  e,  e,  e,  e,
             e,  e,  e,  e, wP,  e, wP,  e,
             e,  e,  e,  e,  e,  e,  e,  e,
             e, wR,  e,  e,  e, bP,  e, bK,
            wK, wP,  e,  e,  e,  e,  e, bR,
             e,  e,  e, bP,  e,  e,  e,  e,
             e,  e, bP,  e,  e,  e,  e,  e,
             e,  e,  e,  e,  e,  e,  e,  e>>,
        color_to_move |-> White, en_passant_destination |-> None,
        castling_rights |-> CastlingRightsNew(FALSE, FALSE, FALSE, FALSE),
        halfmoves_since_event |-> U32(0), fullmoves |-> U32(1)],
       \* movegen.rs:656, test_en_passant_pin
       \* 8/8/8/K2pP2r/8/8/8/7k w - d6 0 1
       [pieces |-> <<
             e,  e,  e,  e,  e,  e,  e, bK,
             e,  e,  e,  e,  e,  e,  e,  e,
             e,  e,  e,  e,  e,  e,  e,  e,
             e,  e,  e,  e,  e,  e,  e,  e,
            wK,  e,  e, bP, wP,  e,  e, bR,
             e,  e,  e,  e,  e,  e,  e,  e,
             e,  e,  e,  e,  e,  e,  e,  e,
             e,  e,  e,  e,  e,  e,  e,  e>>,
        color_to_move |-> White, en_passant_destination |-> at(3, 5),
        castling_rights |-> CastlingRightsNew(FALSE, FALSE, FALSE, FALSE),
        halfmoves_since_event |-> U32(0), fullmoves |-> U32(1)],
       \* movegen.rs:621, test_en_passant
       \* rnbqkbnr/ppp1ppp1/7p/3pP3/8/8/PPPP1PPP/RNBQKBNR w KQkq d6 0 3
       [pieces |-> <<
            wR, wN, wB, wQ, wK, wB, wN, wR,
            wP, wP, wP, wP,  e, wP, wP, wP,
             e,  e,  e,  e,  e,  e,  e,  e,
             e,  e,  e,  e,  e,  e,  e,  e,
             e,  e,  e, bP, wP,  e,  e,  e,
             e,  e,  e,  e,  e,  e,  e, bP,
            bP, bP, bP,  e, bP, bP, bP,  e,
            bR, bN, bB, bQ, bK, bB, bN, bR>>,
        color_to_move |-> White, en_passant_destination |-> at(3, 5),
        castling_rights |-> CastlingRightsNew(TRUE, TRUE, TRUE, TRUE),
        halfmoves_since_event |-> U32(0), fullmoves |-> U32(3)],
       \* movegen.rs:663, test_interpositions
       \* rnbqkbnr/ppp1pppp/8/1B1p4/4P3/8/PPPP1PPP/RNBQK1NR b KQkq - 1 2
       [pieces |-> <<
            wR, wN, wB, wQ, wK,  e, wN, wR,
            wP, wP, wP, wP,  e, wP, wP, wP,
             e,  e,  e,  e,  e,  e,  e,  e,
             e,  e,  e,  e, wP,  e,  e,  e,
             e, wB,  e, bP,  e,  e,  e,  e,
             e,  e,  e,  e,  e,  e,  e,  e,
            bP, bP, bP,  e, bP, bP, bP, bP,
            bR, bN, bB, bQ, bK, bB, bN, bR>>,
        color_to_move |-> Black, en_passant_destination |-> None,
        castling_rights |-> CastlingRightsNew(TRUE, TRUE, TRUE, TRUE),
        halfmoves_since_event |-> U32(1), fullmoves |-> U32(2)],
       \* movegen.rs:668, test_interpositions
       \* 3R4/k7/8/8/8/8/5PPP/r5K1 w - - 0 1
       [pieces |-> <<
            bR,  e,  e,  e,  e,  e, wK,  e,
             e,  e,  e,  e,  e, wP, wP, wP,
             e,  e,  e,  e,  e,  e,  e,  e,
             e,  e,  e,  e,  e,  e,  e,  e,
             e,  e,  e,  e,  e,  e,  e,  e,
             e,  e,  e,  e,  e,  e,  e,  e,
            bK,  e,  e,  e,  e,  e,  e,  e,
             e,  e,  e, wR,  e,  e,  e,  e>>,
        color_to_move |-> White, en_passant_destination |-> None,
        castling_rights |-> CastlingRightsNew(FALSE, FALSE, FALSE, FALSE),
        halfmoves_since_event |-> U32(0), fullmoves |-> U32(1)],
       \* movegen.rs:610, test_simple_bishop_pin
       \* K7/8/2P5/8/4b3/8/8/k7 w - - 0 1
       [pieces |-> <<
            bK,  e,  e,  e,  e,  e,  e,  e,
             e,  e,  e,  e,  e,  e,  e,  e,
             e,  e,  e,  e,  e,  e,  e,  e,
             e,  e,  e,  e, bB,  e,  e,  e,
             e,  e,  e,  e,  e,  e,  e,  e,
             e,  e, wP,  e,  e,  e,  e,  e,
             e,  e,  e,  e,  e,  e,  e,  e,
            wK,  e,  e,  e,  e,  e,  e,  e>>,
        color_to_move |-> White, en_passant_destination |-> None,
        castling_rights |-> CastlingRightsNew(FALSE, FALSE, FALSE, FALSE),
        halfmoves_since_event |-> U32(0), fullmoves |-> U32(1)],
       \* movegen.rs:615, test_simple_rook_pin
       \* 8/8/K1P4r/8/8/8/8/k7 w - - 0 1
       [pieces |-> <<
            bK,  e,  e,  e,  e,  e,  e,  e,
             e,  e,  e,  e,  e,  e,  e,  e,
             e,  e,  e,  e,  e,  e,  e,  e,
             e,  e,  e,  e,  e,  e,  e,  e,
             e,  e,  e,  e,  e,  e,  e,  e,
            wK,  e, wP,  e,  e,  e,  e, bR,
             e,  e,  e,  e,  e,  e,  e,  e,
             e,  e,  e,  e,  e,  e,  e,  e>>,
        color_to_move |-> White, en_passant_destination |-> None,
        castling_rights |-> CastlingRightsNew(FALSE, FALSE, FALSE, FALSE),
        halfmoves_since_event |-> U32(0), fullmoves |-> U32(1)],
       \* perft.rs:90, perft position 5
       \* rnbq1k1r/pp1Pbppp/2p5/8/2B5/8/PPP1NnPP/RNBQK2R w KQ - 1 8
       [pieces |-> <<
            wR, wN, wB, wQ, wK,  e,  e, wR,
            wP, wP, wP,  e, wN, bN, wP, wP,
             e,  e,  e,  e,  e,  e,  e,  e,
             e,  e, wB,  e,  e,  e,  e,  e,
             e,  e,  e,  e,  e,  e,  e,  e,
             e,  e, bP,  e,  e,  e,  e,  e,
            bP, bP,  e, wP, bB, bP, bP, bP,
            bR, bN, bB, bQ,  e, bK,  e, bR>>,
        color_to_move |-> White, en_passant_destination |-> None,
        castling_rights |-> CastlingRightsNew(TRUE, TRUE, FALSE, FALSE),
        halfmoves_since_event |-> U32(1), fullmoves |-> U32(8)],
       \* the position of test_en_passant_pin mirrored, before the double push
       \* 8/3p4/8/r3P2K/8/8/8/k7 b - - 0 1
       [pieces |-> <<
            bK,  e,  e,  e,  e,  e,  e,  e,
             e,  e,  e,  e,  e,  e,  e,  e,
             e,  e,  e,  e,  e,  e,  e,  e,
             e,  e,  e,  e,  e,  e,  e,  e,
            bR,  e,  e,  e, wP,  e,  e, wK,
             e,  e,  e,  e,  e,  e,  e,  e,
             e,  e,  e, bP,  e,  e,  e,  e,
             e,  e,  e,  e,  e,  e,  e,  e>>,
        color_to_move |-> Black, en_passant_destination |-> None,
        castling_rights |-> CastlingRightsNew(FALSE, FALSE, FALSE, FALSE),
        halfmoves_since_event |-> U32(0), fullmoves |-> U32(1)],
       \* movegen.rs:637, test_no_castling_through_check
       \* 3rkr2/8/8/8/8/8/8/R3K2R w KQ - 0 1
       [pieces |-> <<
            wR,  e,  e,  e, wK,  e,  e, wR,
             e,  e,  e,  e,  e,  e,  e,  e,
             e,  e,  e,  e,  e,  e,  e,  e,
             e,  e,  e,  e,  e,  e,  e,  e,
             e,  e,  e,  e,  e,  e,  e,  e,
             e,  e,  e,  e,  e,  e,  e,  e,
             e,  e,  e,  e,  e,  e,  e,  e,
             e,  e,  e, bR, bK, bR,  e,  e>>,
        color_to_move |-> White, en_passant_destination |-> None,
        castling_rights |-> CastlingRightsNew(TRUE, TRUE, FALSE, FALSE),
        halfmoves_since_event |-> U32(0), fullmoves |-> U32(1)],
       \* the position of test_en_passant_pin with a queen for the rook
       \* 8/8/8/K2pP2q/8/8/8/7k w - d6 0 1
       [pieces |-> <<
             e,  e,  e,  e,  e,  e,  e, bK,
             e,  e,  e,  e,  e,  e,  e,  e,
             e,  e,  e,  e,  e,  e,  e,  e,
             e,  e,  e,  e,  e,  e,  e,  e,
            wK,  e,  e, bP, wP,  e,  e, bQ,
             e,  e,  e,  e,  e,  e,  e,  e,
             e,  e,  e,  e,  e,  e,  e,  e,
             e,  e,  e,  e,  e,  e,  e,  e>>,
        color_to_move |-> White, en_passant_destination |-> at(3, 5),
        castling_rights |-> CastlingRightsNew(FALSE, FALSE, FALSE, FALSE),
        halfmoves_since_event |-> U32(0), fullmoves |-> U32(1)],
       \* a double push that gives check and can be taken en passant
       \* 8/3p4/8/4P3/4K3/8/8/k7 b - - 0 1
       [pieces |-> <<
            bK,  e,  e,  e,  e,  e,  e,  e,
             e,  e,  e,  e,  e,  e,  e,  e,
             e,  e,  e,  e,  e,  e,  e,  e,
             e,  e,  e,  e, wK,  e,  e,  e,
             e,  e,  e,  e, wP,  e,  e,  e,
             e,  e,  e,  e,  e,  e,  e,  e,
             e,  e,  e, bP,  e,  e,  e,  e,
             e,  e,  e,  e,  e,  e,  e,  e>>,
        color_to_move |-> Black, en_passant_destination |-> None,
        castling_rights |-> CastlingRightsNew(FALSE, FALSE, FALSE, FALSE),
        halfmoves_since_event |-> U32(0), fullmoves |-> U32(1)],
       \* both clocks at the largest value a u32 holds, with a capture, a
       \* pawn move and king moves to choose from
       \* 8/8/8/3p4/4P3/8/8/K6k b - - 4294967295 4294967295
       [pieces |-> <<
            wK,  e,  e,  e,  e,  e,  e, bK,
             e,  e,  e,  e,  e,  e,  e,  e,
             e,  e,  e,  e,  e,  e,  e,  e,
             e,  e,  e,  e, wP,  e,  e,  e,
             e,  e,  e, bP,  e,  e,  e,  e,
             e,  e,  e,  e,  e,  e,  e,  e,
             e,  e,  e,  e,  e,  e,  e,  e,
             e,  e,  e,  e,  e,  e,  e,  e>>,
        color_to_move |-> Black, en_passant_destination |-> None,
        castling_rights |-> CastlingRightsNew(FALSE, FALSE, FALSE, FALSE),
        halfmoves_since_event |-> U32_MAX, fullmoves |-> U32_MAX]
       >>

Idle == <<>>

\* The parts of the state a specification does not use stay idle.
IdleBoard == board = Idle /\ stack = Idle /\ moves = Idle /\ last = Idle
IdleStorage == ps = Idle /\ psHash = Idle /\ psLast = Idle
IdleSliding == lookup = Idle
IdleFen == fen = Idle /\ parsed = Idle /\ printed = Idle
IdleUci ==
    /\ pc = Idle /\ uciBoard = Idle /\ RUNNING = Idle /\ SHOULD_STOP = Idle
    /\ cache = Idle /\ cacheLock = Idle /\ workers = Idle /\ output = Idle
    /\ uciLast = Idle /\ games = Idle /\ handled = Idle
IdleSearch ==
    /\ scores = Idle /\ searchBoard = Idle /\ saved_positions = Idle /\ callStack = Idle
    /\ ret = Idle /\ stopping = Idle /\ observed = Idle /\ searchLast = Idle
    /\ searched = Idle /\ stops = Idle
IdleOptions == globalOptions = Idle /\ optionLast = Idle

\* The kind of move mv is on board b, as make_move tells the kinds apart.
MoveClass(b, mv) ==
    LET source_piece == StorageGet(b.pieces, mv.source)
        destination_piece == StorageGet(b.pieces, mv.destination)
        dx == file(mv.destination) - file(mv.source)
        dy == rank(mv.destination) - rank(mv.source)
    IN IF kind(source_piece) = Pawn /\ destination_piece = None /\ dx # 0
       THEN "en passant"
       ELSE IF mv.promotion # None
       THEN IF destination_piece # None THEN "promotion with capture" ELSE "promotion"
       ELSE IF kind(source_piece) = King /\ dx = 0 - 2 THEN "queenside castling"
       ELSE IF kind(source_piece) = King /\ dx = 2 THEN "kingside castling"
       ELSE IF kind(source_piece) = Pawn /\ (dy = 2 \/ dy = 0 - 2) THEN "double push"
       ELSE IF destination_piece # None THEN "capture"
       ELSE "quiet"

NotGenerated == [status |-> "none", list |-> <<>>]

\* The squares of a storage as the piece array Board::new takes.
PieceArray(st) == [i \in 1 .. 64 |-> StorageGet(st, i - 1)]

Init ==
    /\ \E i \in 1 .. Len(SeedPositions) :
          board = BoardNew(SeedPositions[i].pieces, SeedPositions[i].color_to_move,
                           SeedPositions[i].en_passant_destination,
                           SeedPositions[i].castling_rights,
                           SeedPositions[i].halfmoves_since_event,
                           SeedPositions[i].fullmoves)
    /\ stack = <<>>
    /\ moves = NotGenerated
    /\ last = [op |-> "new", class |-> "", before |-> Idle, mv |-> None]
    /\ IdleStorage /\ IdleSliding /\ IdleFen /\ IdleUci /\ IdleSearch /\ IdleOptions

\* board.make_move(mv) for a legal move; the token is kept for the unmake,
\* together with the board as it was and the kind of move it was.  last
\* records the last call on the board.  Where a clock is at its largest
\* value this is the build without overflow checks.
MakeMove(mv) ==
    /\ LET r == make_move(board, mv)
       IN /\ board' = r.board
          /\ stack' = Append(stack, [um |-> r.um, class |-> MoveClass(board, mv),
                                      before |-> board])
    /\ moves' = NotGenerated
    /\ last' = [op |-> "make", class |-> MoveClass(board, mv), before |-> board,
                 mv |-> mv]
    /\ UNCHANGED <<storageVars, slidingVars, fenVars, uciVars, searchVars, optionVars>>

\* The same call in a build with overflow checks, on a board where a clock
\* that make_move increases is at its largest value: the call panics.
MakeMovePanics(mv) ==
    /\ MakeMoveOverflows(board)
    /\ moves' = [status |-> "panic", list |-> <<>>]
    /\ last' = [op |-> "make panics", class |-> MoveClass(board, mv), before |-> board,
                 mv |-> mv]
    /\ UNCHANGED <<board, stack, storageVars, slidingVars, fenVars, uciVars, searchVars, optionVars>>

\* board.unmake_last_move(um) with the token of the last move made.
UnmakeLastMove ==
    /\ moves.status # "panic"
    /\ stack # <<>>
    /\ LET top == stack[Len(stack)]
       IN /\ board' = unmake_last_move(board, top.um)
          /\ last' = [op |-> "unmake", class |-> top.class, before |-> top.before,
                       mv |-> None]
    /\ stack' = SubSeq(stack, 1, Len(stack) - 1)
    /\ moves' = NotGenerated
    /\ UNCHANGED <<storageVars, slidingVars, fenVars, uciVars, searchVars, optionVars>>

\* MoveGenerator::new() followed by compute_legal_moves on the board, in a
\* build where the u64 subtraction of the table index wraps.
ComputeLegalMoves ==
    /\ moves.status = "none"
    /\ moves' = [status |-> "ok", list |-> compute_legal_moves(board)]
    /\ UNCHANGED <<board, stack, last, storageVars, slidingVars, fenVars, uciVars, searchVars, optionVars>>

\* The same in a build with overflow checks: the first table index computed,
\* 0 - magic, overflows and MoveGenerator::new() panics.
MoveGeneratorPanics ==
    /\ moves.status = "none"
    /\ moves' = [status |-> "panic", list |-> <<>>]
    /\ UNCHANGED <<board, stack, last, storageVars, slidingVars, fenVars, uciVars, searchVars, optionVars>>

Next ==
    \/ /\ moves.status # "panic"
       /\ Len(stack) < MaxPly
       /\ \E mv \in LegalMoves(board) : MakeMove(mv)
    \/ /\ moves.status # "panic"
       /\ Len(stack) < MaxPly
       /\ MakeMoveOverflows(board)
       /\ \E mv \in LegalMoves(board) : MakeMovePanics(mv)
    \/ UnmakeLastMove
    \/ ComputeLegalMoves
    \/ MoveGeneratorPanics

Spec == Init /\ [][Next]_vars

(***************************************************************************)
(* The piece storage on its own: any sequence of set calls from an empty   *)
(* storage, the hash threaded through the calls as Board::new does.        *)
(***************************************************************************)
StorageSquares == {s \in Squares : s <= MaxStorageSquare}
StoragePieces == {p \in Pieces : p <= MaxStoragePiece}

InitStorage ==
    /\ ps = StorageNew
    /\ psHash = zero
    /\ psLast = [op |-> "new", sq |-> None, contents |-> None, removed |-> None,
                 input |-> zero]
    /\ IdleBoard /\ IdleSliding /\ IdleFen /\ IdleUci /\ IdleSearch /\ IdleOptions

Set(sq, contents) ==
    LET r == StorageSet(ps, psHash, sq, contents)
    IN /\ ps' = r[1]
       /\ psHash' = r[2]
       /\ psLast' = [op |-> "set", sq |-> sq, contents |-> contents,
                     removed |-> StorageGet(ps, sq), input |-> psHash]
       /\ UNCHANGED <<boardVars, slidingVars, fenVars, uciVars, searchVars, optionVars>>

NextStorage ==
    \E sq \in StorageSquares, contents \in StoragePieces \cup {None} : Set(sq, contents)

SpecStorage == InitStorage /\ [][NextStorage]_vars

(***************************************************************************)
(* The sliding attack tables on their own: the tables are computed and     *)
(* looked up for a square and a board occupancy.                           *)
(***************************************************************************)
\* The occupancies looked up: the empty board and the boards of the
\* positions above.
LookupOccupancies ==
    {{}} \cup {{s \in Squares : SeedPositions[i].pieces[s + 1] # None} :
                 i \in 1 .. Len(SeedPositions)}

InitSliding ==
    /\ lookup = [op |-> "new"]
    /\ IdleBoard /\ IdleStorage /\ IdleFen /\ IdleUci /\ IdleSearch /\ IdleOptions

\* SlidingAttackTable::compute_for_rook() or compute_for_bishop() followed
\* by get_attack_set(sq, all_pieces_bitboard), in a build where the u64
\* subtraction of the table index wraps.  A lookup leaves the table as it
\* is, so each one is taken from the state after the construction.
GetAttackSet(table, sq, all_pieces_bitboard) ==
    /\ lookup.op = "new"
    /\ lookup' = [op |-> "get_attack_set", rook |-> table.rook, sq |-> sq,
                  all_pieces_bitboard |-> all_pieces_bitboard,
                  result |-> get_attack_set(table, sq, all_pieces_bitboard)]
    /\ UNCHANGED <<boardVars, storageVars, fenVars, uciVars, searchVars, optionVars>>

\* The same in a build with overflow checks: compute() panics on the first
\* index it computes, 0 - magic.
ComputePanics ==
    /\ lookup.op = "new"
    /\ lookup' = [op |-> "panic"]
    /\ UNCHANGED <<boardVars, storageVars, fenVars, uciVars, searchVars, optionVars>>

NextSliding ==
    \/ \E table \in {RookTable, BishopTable}, sq \in Squares,
          all_pieces_bitboard \in LookupOccupancies :
          GetAttackSet(table, sq, all_pieces_bitboard)
    \/ ComputePanics

SpecSliding == InitSliding /\ [][NextSliding]_vars

(***************************************************************************)
(* FEN text.  A string is taken apart character by character, as the code  *)
(* does; the conversions between characters and pieces, files, ranks and   *)
(* numbers are tables.                                                     *)
(***************************************************************************)
Char(s, i) == SubSeq(s, i, i)
Chars(s) == {Char(s, i) : i \in 1 .. Len(s)}

Digits == <<"0", "1", "2", "3", "4", "5", "6", "7", "8", "9">>
is_ascii_digit(c) == \E d \in 1 .. 10 : Digits[d] = c
DigitValue(c) == (CHOOSE d \in 1 .. 10 : Digits[d] = c) - 1

\* str::split: the pieces between the occurrences of sep, empty ones kept.
RECURSIVE split(_, _)
split(s, sep) ==
    IF \A i \in 1 .. Len(s) : Char(s, i) # sep
    THEN <<s>>
    ELSE LET i == CHOOSE j \in 1 .. Len(s) :
                      /\ Char(s, j) = sep
                      /\ \A k \in 1 .. j - 1 : Char(s, k) # sep
         IN <<SubSeq(s, 1, i - 1)>> \o split(SubSeq(s, i + 1, Len(s)), sep)

\* str::parse::<u32>: an optional '+', then one or more decimal digits
\* whose value fits 32 bits.
RECURSIVE ParseDigits(_, _, _)
ParseDigits(s, i, acc) ==
    IF i > Len(s) THEN [ok |-> TRUE, value |-> acc]
    ELSE IF ~is_ascii_digit(Char(s, i)) THEN [ok |-> FALSE, value |-> acc]
    ELSE LET low == acc[1] * 10 + DigitValue(Char(s, i))
             high == acc[2] * 10 + low \div Limb
         IN IF high >= Limb THEN [ok |-> FALSE, value |-> acc]
            ELSE ParseDigits(s, i + 1, <<low % Limb, high>>)

ParseU32(s) ==
    IF s = "" \/ s = "+" \/ s = "-" THEN [ok |-> FALSE, value |-> U32(0)]
    ELSE IF Char(s, 1) = "+" THEN ParseDigits(s, 2, U32(0))
    ELSE ParseDigits(s, 1, U32(0))

\* The decimal text of a u32, as format!("{}", v) writes it.
RECURSIVE FormatU32(_)
FormatU32(v) ==
    LET t == (v[2] % 10) * Limb + v[1]
        quotient == <<t \div 10, v[2] \div 10>>
        digit == Digits[(t % 10) + 1]
    IN IF quotient = U32(0) THEN digit ELSE FormatU32(quotient) \o digit

\* board/piece.rs
PieceKindChars == <<"p", "n", "b", "r", "q", "k">>
UppercaseChars == <<"P", "N", "B", "R", "Q", "K">>
PieceKindAsChar(k) == PieceKindChars[k + 1]
PieceKindFromChar(c) ==
    IF \E k \in 1 .. 6 : PieceKindChars[k] = c \/ UppercaseChars[k] = c
    THEN (CHOOSE k \in 1 .. 6 : PieceKindChars[k] = c \/ UppercaseChars[k] = c) - 1
    ELSE None
PieceAsChar(piece) ==
    IF is_white(color(piece)) THEN UppercaseChars[kind(piece) + 1]
    ELSE PieceKindAsChar(kind(piece))
PieceFromChar(c) ==
    IF PieceKindFromChar(c) = None THEN None
    ELSE PieceNew(PieceKindFromChar(c),
                  IF \E k \in 1 .. 6 : UppercaseChars[k] = c THEN White ELSE Black)

\* board/color.rs
ColorAsChar(c) == IF c = White THEN "w" ELSE "b"

\* board/square.rs
FILES == <<"a", "b", "c", "d", "e", "f", "g", "h">>
RANKS == <<"1", "2", "3", "4", "5", "6", "7", "8">>
BoardFileFromChar(c) ==
    IF \E i \in 1 .. 8 : FILES[i] = c THEN (CHOOSE i \in 1 .. 8 : FILES[i] = c) - 1 ELSE None
BoardRankFromChar(c) ==
    IF \E i \in 1 .. 8 : RANKS[i] = c THEN (CHOOSE i \in 1 .. 8 : RANKS[i] = c) - 1 ELSE None
\* The rest of the string after the second character is ignored.
from_name(s) ==
    IF Len(s) < 2 THEN None
    ELSE IF BoardFileFromChar(Char(s, 1)) = None \/ BoardRankFromChar(Char(s, 2)) = None
    THEN None
    ELSE at(BoardFileFromChar(Char(s, 1)), BoardRankFromChar(Char(s, 2)))
name(sq) == FILES[file(sq) + 1] \o RANKS[rank(sq) + 1]

\* Board::from_fen, the loop over the characters of one rank: r counts the
\* ranks of the text from the top, f is the file reached.  A digit moves f
\* on; a letter is placed when f is on the board.
RECURSIVE ParseRank(_, _, _, _, _)
ParseRank(rank_text, i, r, f, pieces) ==
    IF i > Len(rank_text) THEN [err |-> "", pieces |-> pieces]
    ELSE LET c == Char(rank_text, i)
         IN IF is_ascii_digit(c)
            THEN ParseRank(rank_text, i + 1, r, f + DigitValue(c), pieces)
            ELSE IF f >= 8
            THEN [err |-> "file " \o FormatU32(U32(f)) \o " out of range",
                  pieces |-> pieces]
            ELSE IF PieceFromChar(c) = None
            THEN [err |-> "unrecognised piece '" \o c \o "'", pieces |-> pieces]
            ELSE ParseRank(rank_text, i + 1, r, f + 1,
                           [pieces EXCEPT ![(7 - r) * 8 + f + 1] = PieceFromChar(c)])

\* The loop over the ranks; the first error ends it.
RECURSIVE ParseRanks(_, _, _)
ParseRanks(ranks, r, pieces) ==
    IF r = Len(ranks) THEN [err |-> "", pieces |-> pieces]
    ELSE LET done == ParseRank(ranks[r + 1], 1, r, 0, pieces)
         IN IF done.err # "" THEN done ELSE ParseRanks(ranks, r + 1, done.pieces)

invalid_fen_err(fen_text, err) ==
    [status |-> "Err", message |-> "Invalid fen: " \o fen_text \o " - " \o err]

\* Board::from_fen.  The result is a set: the castling characters are held
\* in a HashSet, whose iteration order decides which unrecognised character
\* the error names.
from_fen(fen_text) ==
    LET sections == split(fen_text, " ")
    IN IF Len(sections) # 6 THEN {invalid_fen_err(fen_text, "must have 6 fields")}
       ELSE
       LET ranks == split(sections[1], "/")
       IN IF Len(ranks) # 8 THEN {invalid_fen_err(fen_text, "must have 8 ranks")}
       ELSE
       LET placed == ParseRanks(ranks, 0, [i \in 1 .. 64 |-> None])
           castling_chars == IF sections[3] = "-" THEN {} ELSE Chars(sections[3])
           unrecognised == castling_chars \ {"K", "Q", "k", "q"}
           halfmoves_since_event == ParseU32(sections[5])
           fullmoves == ParseU32(sections[6])
       IN IF placed.err # "" THEN {invalid_fen_err(fen_text, placed.err)}
          ELSE IF sections[2] # "w" /\ sections[2] # "b"
          THEN {invalid_fen_err(fen_text, "invalid fen")}
          ELSE IF unrecognised # {}
          THEN {invalid_fen_err(fen_text, "unrecognised castling character '" \o c \o "'") :
                    c \in unrecognised}
          ELSE IF sections[4] # "-" /\ Len(sections[4]) # 2
          THEN {invalid_fen_err(fen_text, "en passant must be '-' or 2 character")}
          ELSE IF sections[4] # "-" /\ from_name(sections[4]) = None
          THEN {invalid_fen_err(fen_text, "invalid en passant square")}
          ELSE IF ~halfmoves_since_event.ok
          THEN {invalid_fen_err(fen_text, "halfmoves not a number")}
          ELSE IF ~fullmoves.ok
          THEN {invalid_fen_err(fen_text, "fullmoves not a number")}
          ELSE {[status |-> "Ok",
                 board |-> BoardNew(placed.pieces,
                                    IF sections[2] = "w" THEN White ELSE Black,
                                    IF sections[4] = "-" THEN None ELSE from_name(sections[4]),
                                    CastlingRightsNew("Q" \in castling_chars,
                                                      "K" \in castling_chars,
                                                      "q" \in castling_chars,
                                                      "k" \in castling_chars),
                                    halfmoves_since_event.value, fullmoves.value)]}

\* Board::to_fen, the text of rank y from file x on: cur_x is the file after
\* the last piece written, and the gap before a piece and the gap at the
\* end of the rank are written as a number.
RECURSIVE ToFenRank(_, _, _, _)
ToFenRank(st, y, x, cur_x) ==
    IF x = 8
    THEN IF cur_x # 8 THEN FormatU32(U32(8 - cur_x)) ELSE ""
    ELSE IF StorageGet(st, at(x, y)) = None
    THEN ToFenRank(st, y, x + 1, cur_x)
    ELSE (IF cur_x # x THEN FormatU32(U32(x - cur_x)) ELSE "")
         \o PieceAsChar(StorageGet(st, at(x, y)))
         \o ToFenRank(st, y, x + 1, x + 1)

\* A variant that writes each colour's queenside letter before its kingside
\* letter.
castling_string_queenside_first(rights) ==
    LET text == (IF queenside(rights, White) THEN "Q" ELSE "")
                \o (IF kingside(rights, White) THEN "K" ELSE "")
                \o (IF queenside(rights, Black) THEN "q" ELSE "")
                \o (IF kingside(rights, Black) THEN "k" ELSE "")
    IN IF text = "" THEN "-" ELSE text

\* The castling field to_fen writes.
castling_string(rights) ==
    LET text == (IF kingside(rights, White) THEN "K" ELSE "")
                \o (IF queenside(rights, White) THEN "Q" ELSE "")
                \o (IF kingside(rights, Black) THEN "k" ELSE "")
                \o (IF queenside(rights, Black) THEN "q" ELSE "")
    IN IF text = "" THEN "-" ELSE text

RECURSIVE ToFenRanks(_, _)
ToFenRanks(st, y) ==
    ToFenRank(st, y, 0, 0) \o (IF y # 0 THEN "/" \o ToFenRanks(st, y - 1) ELSE "")

to_fen(b) ==
    ToFenRanks(b.pieces, 7)
    \o " " \o ColorAsChar(b.color_to_move) \o " "
    \o castling_string(b.castling_rights)
    \o (IF b.en_passant_destination # None
        THEN " " \o name(b.en_passant_destination)
        ELSE " -")
    \o " " \o FormatU32(b.halfmoves_since_event) \o " " \o FormatU32(b.fullmoves)

(***************************************************************************)
(* A FEN string is parsed and, when that succeeds, the board is written    *)
(* back as FEN.                                                            *)
(***************************************************************************)
\* The canonical inputs, put together field by field.
CanonicalFens ==
    LET FenPlacements ==
            {"rnbqkbnr/pppppppp/8/8/8/8/PPPPPPPP/RNBQKBNR",
             "r3k2r/8/8/8/8/8/8/R3K2R",
             "8/8/8/K2pP2r/8/8/8/7k",
             "8/8/8/8/8/8/8/8",
             "r3k2r/p1ppqpb1/bn2pnp1/3PN3/1p2P3/2N2Q1p/PPPBBPPP/R3K2R",
             "1p1p1p1p/P1P1P1P1/2k2K2/8/q6Q/3nN3/1b4B1/pppppppp"}
        FenSides == {"w", "b"}
        FenCastlings ==
            {"-", "K", "Q", "k", "q", "KQ", "Kk", "Kq", "Qk", "Qq", "kq",
             "KQk", "KQq", "Kkq", "Qkq", "KQkq"}
        FenEnPassants == {"-", "a3", "d6", "h6"}
        FenHalfmoves == {"0", "7", "4294967295"}
        FenFullmoves == {"1", "65536", "4294967295"}
    IN {p \o " " \o s \o " " \o c \o " " \o e \o " " \o h \o " " \o f :
           p \in FenPlacements, s \in FenSides, c \in FenCastlings,
           e \in FenEnPassants, h \in FenHalfmoves, f \in FenFullmoves}

\* Texts that leave the format, by the field that leaves it.
MalformedFens ==
    LET WrongFieldCount ==
            {"", "8/8/8/8/8/8/8/8 w - - 0", "8/8/8/8/8/8/8/8 w - - 0 1 ",
             "8/8/8/8/8/8/8/8 w - - 0 1 1", "8/8/8/8/8/8/8/8  w - - 0 1"}
        WrongRankCount ==
            {"8/8/8/8/8/8/8 w - - 0 1", "8/8/8/8/8/8/8/8/8 w - - 0 1",
             "8/8/8/8/8/8/8/8/ w - - 0 1"}
        WrongRankWidth ==
            {"8/8/8/8/8/8/8/7 w - - 0 1", "8/8/8/8/8/8/8/9 w - - 0 1",
             "8/8/8/8/8/8/8/ w - - 0 1", "8/8/8/8/8/8/8/ppppppppp w - - 0 1",
             "8/8/8/8/8/8/8/pppppppp1 w - - 0 1", "8/8/8/8/8/8/8/8p w - - 0 1",
             "rnbqkbnr/ppppppp/8/8/8/8/PPPPPPPP/RNBQKBNR w KQkq - 0 1",
             "k6K1/8/8/8/8/8/8/8 w - - 0 1"}
        UnknownPieceLetter ==
            {"8/8/8/8/8/8/8/7x w - - 0 1", "rnbqkbnr/pppppppp/8/8/8/8/PPPPPPPP/RNBQKBNA w KQkq - 0 1",
             "8/8/8/8/8/8/8/-8 w - - 0 1"}
        WrongSide ==
            {"8/8/8/8/8/8/8/8 W - - 0 1", "8/8/8/8/8/8/8/8 white - - 0 1",
             "8/8/8/8/8/8/8/8 - - - 0 1", "8/8/8/8/8/8/8/8  - - 0 1"}
        WrongCastling ==
            {"8/8/8/8/8/8/8/8 w  - 0 1", "8/8/8/8/8/8/8/8 w KQkqx - 0 1",
             "8/8/8/8/8/8/8/8 w -K - 0 1", "8/8/8/8/8/8/8/8 w AH - 0 1"}
        WrongEnPassant ==
            {"8/8/8/8/8/8/8/8 w - e 0 1", "8/8/8/8/8/8/8/8 w - e33 0 1",
             "8/8/8/8/8/8/8/8 w - i3 0 1", "8/8/8/8/8/8/8/8 w - a9 0 1",
             "8/8/8/8/8/8/8/8 w - a0 0 1", "8/8/8/8/8/8/8/8 w - E3 0 1",
             "8/8/8/8/8/8/8/8 w -  0 1", "8/8/8/8/8/8/8/8 w - 3e 0 1"}
        WrongClock ==
            {"8/8/8/8/8/8/8/8 w - - x 1", "8/8/8/8/8/8/8/8 w - - 0 x",
             "8/8/8/8/8/8/8/8 w - -  1", "8/8/8/8/8/8/8/8 w - - 0 ",
             "8/8/8/8/8/8/8/8 w - - -1 1", "8/8/8/8/8/8/8/8 w - - 0 1.5",
             "8/8/8/8/8/8/8/8 w - - 0x10 1", "8/8/8/8/8/8/8/8 w - - 0 +"}
    IN WrongFieldCount \cup WrongRankCount \cup WrongRankWidth \cup UnknownPieceLetter
       \cup WrongSide \cup WrongCastling \cup WrongEnPassant \cup WrongClock

\* Nothing has been parsed, or written, yet.
NotYet == [status |-> "none"]

InitFen ==
    /\ fen \in CanonicalFens \cup MalformedFens
    /\ parsed = NotYet
    /\ printed = NotYet
    /\ IdleBoard /\ IdleStorage /\ IdleSliding /\ IdleUci /\ IdleSearch /\ IdleOptions

\* Board::from_fen(fen)
FromFen ==
    /\ parsed = NotYet
    /\ parsed' \in from_fen(fen)
    /\ UNCHANGED <<fen, printed, boardVars, storageVars, slidingVars, uciVars, searchVars, optionVars>>

\* board.to_fen() on the board from_fen returned
ToFen ==
    /\ parsed.status = "Ok"
    /\ printed = NotYet
    /\ printed' = [status |-> "written", text |-> to_fen(parsed.board)]
    /\ UNCHANGED <<fen, parsed, boardVars, storageVars, slidingVars, uciVars, searchVars, optionVars>>

NextFen == FromFen \/ ToFen

SpecFen == InitFen /\ [][NextFen]_vars

(***************************************************************************)
(* The UCI adapter.  The main thread reads commands and handles them one   *)
(* at a time; every go spawns a worker thread that locks the cache, runs   *)
(* the search, writes its lines and clears RUNNING.  Threads interleave    *)
(* between the steps below.  Scores and hashes are left open: wherever the *)
(* code compares scores both outcomes are possible, a probe of a cache     *)
(* with entries may hit any of them or miss, and the move of a bestmove    *)
(* line is not recorded.  A cache entry is known by the number of          *)
(* ucinewgame commands handled when it was written.  Below the root, the   *)
(* number of replies minimax loops over is any number up to MaxReplies.    *)
(***************************************************************************)
MaxCommands == 3
MaxReplies == 3

\* The texts of the position commands the runs use: the starting position,
\* a position with three legal moves, a stalemate, a text with a piece on a
\* ninth file and a text whose fullmove number is 2^32.
UciPositions ==
    {"rnbqkbnr/pppppppp/8/8/8/8/PPPPPPPP/RNBQKBNR w KQkq - 0 1",
     "8/8/8/8/8/8/8/K6k w - - 0 1",
     "k7/P7/K7/8/8/8/8/8 b - - 0 1",
     "8/8/8/8/8/8/8/K6k1p w - - 0 1",
     "8/8/8/8/8/8/8/K6k w - - 0 4294967296"}

\* Board::from_fen(text).unwrap() for a text from_fen accepts.  The board
\* of the adapter and the copy a worker owns are written as the text they
\* were parsed from.
BoardOf(text) == (CHOOSE r \in from_fen(text) : r.status = "Ok").board

\* Mutex::lock() returns only when no thread holds the mutex.
\* A variant that never waits.
lock_available_always(lock) == TRUE

lock_available(lock) == lock.holder = None

InitUci ==
    /\ pc = "read"
    /\ uciBoard = "rnbqkbnr/pppppppp/8/8/8/8/PPPPPPPP/RNBQKBNR w KQkq - 0 1"
    /\ RUNNING = FALSE
    /\ SHOULD_STOP = FALSE
    /\ cache = {}
    /\ cacheLock = [holder |-> None, poisoned |-> FALSE]
    /\ workers = <<>>
    /\ output = <<>>
    /\ uciLast = [op |-> "start"]
    /\ games = 0
    /\ handled = 0
    /\ IdleBoard /\ IdleStorage /\ IdleSliding /\ IdleFen /\ IdleSearch /\ IdleOptions

\* The main thread takes the next line from stdin.
Reads == pc = "read" /\ handled < MaxCommands

\* position fen <text>: Board::from_fen(text).unwrap() is assigned to the
\* board; on an error unwrap() panics in the main thread, which ends the
\* process.
Position(text) ==
    /\ Reads
    /\ handled' = handled + 1
    /\ uciLast' = [op |-> "position", text |-> text, before |-> uciBoard]
    /\ IF \E r \in from_fen(text) : r.status = "Ok"
       THEN uciBoard' = text /\ UNCHANGED pc
       ELSE pc' = "exited" /\ UNCHANGED uciBoard
    /\ UNCHANGED <<RUNNING, SHOULD_STOP, cache, cacheLock, workers, output, games>>
    /\ UNCHANGED <<boardVars, storageVars, slidingVars, fenVars, searchVars, optionVars>>

\* go: a panic of the main thread while a search is running, which ends the
\* process; otherwise RUNNING is set and the worker is spawned with a copy
\* of the board.
\* A variant that does not look at RUNNING.
GoWithoutRunningCheck ==
    /\ Reads
    /\ handled' = handled + 1
    /\ uciLast' = [op |-> "go", running |-> RUNNING, stop |-> SHOULD_STOP, workers |-> Len(workers)]
    /\ RUNNING' = TRUE
    /\ workers' = Append(workers, [pc |-> "spawned", board |-> uciBoard,
                                   options |-> 0, i |-> 0, j |-> 0,
                                   epoch |-> None, read |-> <<>>])
    /\ UNCHANGED <<pc, uciBoard, SHOULD_STOP, cache, cacheLock, output, games>>
    /\ UNCHANGED <<boardVars, storageVars, slidingVars, fenVars, searchVars, optionVars>>

Go ==
    /\ Reads
    /\ handled' = handled + 1
    /\ uciLast' = [op |-> "go", running |-> RUNNING, stop |-> SHOULD_STOP, workers |-> Len(workers)]
    /\ IF RUNNING
       THEN pc' = "exited" /\ UNCHANGED <<RUNNING, workers>>
       ELSE /\ RUNNING' = TRUE
            /\ workers' = Append(workers, [pc |-> "spawned", board |-> uciBoard,
                                           options |-> 0, i |-> 0, j |-> 0,
                                           epoch |-> None, read |-> <<>>])
            /\ UNCHANGED pc
    /\ UNCHANGED <<uciBoard, SHOULD_STOP, cache, cacheLock, output, games>>
    /\ UNCHANGED <<boardVars, storageVars, slidingVars, fenVars, searchVars, optionVars>>

\* stop: nothing when no search is running; otherwise the stop flag is set
\* and the main thread enters its wait loop.
Stop ==
    /\ Reads
    /\ handled' = handled + 1
    /\ uciLast' = [op |-> "stop", running |-> RUNNING, go |-> Len(workers)]
    /\ IF RUNNING
       THEN SHOULD_STOP' = TRUE /\ pc' = "stop_wait"
       ELSE UNCHANGED <<SHOULD_STOP, pc>>
    /\ UNCHANGED <<uciBoard, RUNNING, cache, cacheLock, workers, output, games>>
    /\ UNCHANGED <<boardVars, storageVars, slidingVars, fenVars, searchVars, optionVars>>

\* The wait loop of stop ends when RUNNING is found cleared; the stop flag
\* is cleared and the main thread reads again.
\* A variant that does not wait.
StopWaitEndsAtOnce ==
    /\ pc = "stop_wait"
    /\ SHOULD_STOP' = FALSE
    /\ pc' = "read"
    /\ uciLast' = [op |-> "stop ends", running |-> RUNNING, go |-> uciLast.go]
    /\ UNCHANGED <<uciBoard, RUNNING, cache, cacheLock, workers, output, games, handled>>
    /\ UNCHANGED <<boardVars, storageVars, slidingVars, fenVars, searchVars, optionVars>>

StopWaitEnds ==
    /\ pc = "stop_wait"
    /\ ~RUNNING
    /\ SHOULD_STOP' = FALSE
    /\ pc' = "read"
    /\ uciLast' = [op |-> "stop ends", running |-> RUNNING, go |-> uciLast.go]
    /\ UNCHANGED <<uciBoard, RUNNING, cache, cacheLock, workers, output, games, handled>>
    /\ UNCHANGED <<boardVars, storageVars, slidingVars, fenVars, searchVars, optionVars>>

\* ucinewgame: the main thread calls cache.lock().
UciNewGame ==
    /\ Reads
    /\ handled' = handled + 1
    /\ pc' = "newgame_lock"
    /\ uciLast' = [op |-> "ucinewgame arrives", waits |-> cacheLock.holder # None]
    /\ UNCHANGED <<uciBoard, RUNNING, SHOULD_STOP, cache, cacheLock, workers, output, games>>
    /\ UNCHANGED <<boardVars, storageVars, slidingVars, fenVars, searchVars, optionVars>>

\* cache.lock() returns: on a poisoned mutex unwrap() panics and the process
\* ends; otherwise the cache is replaced by a new one and the lock released.
CacheReset ==
    /\ pc = "newgame_lock"
    /\ lock_available(cacheLock)
    /\ IF cacheLock.poisoned
       THEN pc' = "exited" /\ UNCHANGED <<cache, games, uciLast>>
       ELSE /\ cache' = {}
            /\ games' = games + 1
            /\ pc' = "read"
            /\ uciLast' = [op |-> "ucinewgame", waited |-> uciLast.waits,
                           holder |-> cacheLock.holder, cleared |-> cache]
    /\ UNCHANGED <<uciBoard, RUNNING, SHOULD_STOP, cacheLock, workers, output, handled>>
    /\ UNCHANGED <<boardVars, storageVars, slidingVars, fenVars, searchVars, optionVars>>

\* quit, or the end of stdin: the process ends, and its threads with it.
Quit ==
    /\ pc = "read"
    /\ pc' = "exited"
    /\ uciLast' = [op |-> "quit"]
    /\ UNCHANGED <<uciBoard, RUNNING, SHOULD_STOP, cache, cacheLock, workers, output, games, handled>>
    /\ UNCHANGED <<boardVars, storageVars, slidingVars, fenVars, searchVars, optionVars>>

\* A step of worker w that changes only the worker, the cache and its lock.
WorkerStep(w, worker, new_cache, new_lock) ==
    /\ workers' = [workers EXCEPT ![w] = worker]
    /\ cache' = new_cache
    /\ cacheLock' = new_lock
    /\ UNCHANGED <<pc, uciBoard, RUNNING, SHOULD_STOP, output, uciLast, games, handled>>
    /\ UNCHANGED <<boardVars, storageVars, slidingVars, fenVars, searchVars, optionVars>>

\* The worker's cache.lock().unwrap(): a panic on a poisoned mutex.
WorkerLock(w) ==
    /\ workers[w].pc = "spawned"
    /\ lock_available(cacheLock)
    /\ IF cacheLock.poisoned
       THEN WorkerStep(w, [workers[w] EXCEPT !.pc = "panicked"], cache, cacheLock)
       ELSE WorkerStep(w, [workers[w] EXCEPT !.pc = "search", !.epoch = games], cache,
                       [cacheLock EXCEPT !.holder = w])

\* search: the legal moves are computed and options[0] is taken, which
\* panics on an empty list; the guard is dropped by the unwinding, which
\* poisons the mutex.  Otherwise minimax is entered for the first move.
SearchStart(w) ==
    /\ workers[w].pc = "search"
    /\ LET options == compute_legal_moves(BoardOf(workers[w].board))
       IN IF options = <<>>
          THEN WorkerStep(w, [workers[w] EXCEPT !.pc = "panicked"], cache,
                          [holder |-> None, poisoned |-> TRUE])
          ELSE WorkerStep(w, [workers[w] EXCEPT !.pc = "minimax", !.options = Len(options),
                                                !.i = 1],
                          cache, cacheLock)

\* minimax on the position after root move i: the cache probe returns a
\* stored score; a position without legal moves returns; otherwise the
\* first reply is searched, after which the call returns on a cutoff or
\* goes on to the other replies.
MinimaxEnter(w) ==
    /\ workers[w].pc = "minimax"
    /\ LET me == workers[w]
           returned == [me EXCEPT !.pc = "loop", !.i = @ + 1]
       IN \/ \E e \in cache : WorkerStep(w, [returned EXCEPT !.read = <<e>>], cache, cacheLock)
          \/ WorkerStep(w, returned, cache, cacheLock)
          \/ WorkerStep(w, [me EXCEPT !.pc = "replies", !.j = 2], cache, cacheLock)

\* The loop of minimax over the other replies: after the last reply the
\* score is pushed into the cache; before another reply the call returns
\* when the stop flag is found set, and after it on a cutoff.
MinimaxLoop(w) ==
    /\ workers[w].pc = "replies"
    /\ LET me == workers[w]
           returned == [me EXCEPT !.pc = "loop", !.i = @ + 1, !.j = 0]
       IN \/ WorkerStep(w, returned, cache \cup {[epoch |-> games]}, cacheLock)
          \/ /\ me.j <= MaxReplies
             /\ IF SHOULD_STOP
                THEN WorkerStep(w, returned, cache, cacheLock)
                ELSE \/ WorkerStep(w, returned, cache, cacheLock)
                     \/ WorkerStep(w, [me EXCEPT !.j = @ + 1], cache, cacheLock)

\* The loop of search over the root moves after the first: it ends after
\* the last move and when the stop flag is found set.
SearchLoop(w) ==
    /\ workers[w].pc = "loop"
    /\ IF workers[w].i > workers[w].options \/ SHOULD_STOP
       THEN WorkerStep(w, [workers[w] EXCEPT !.pc = "info", !.i = 0], cache, cacheLock)
       ELSE WorkerStep(w, [workers[w] EXCEPT !.pc = "minimax"], cache, cacheLock)

\* A line written by worker w.
Send(w, worker, line) ==
    /\ output' = Append(output, line)
    /\ workers' = [workers EXCEPT ![w] = worker]
    /\ UNCHANGED <<pc, uciBoard, RUNNING, SHOULD_STOP, cache, cacheLock, uciLast, games, handled>>
    /\ UNCHANGED <<boardVars, storageVars, slidingVars, fenVars, searchVars, optionVars>>

\* info score cp 0
SendInfo(w) ==
    /\ workers[w].pc = "info"
    /\ Send(w, [workers[w] EXCEPT !.pc = "bestmove"], [line |-> "info score cp 0", go |-> w])

\* bestmove <move>
SendBestMove(w) ==
    /\ workers[w].pc = "bestmove"
    /\ Send(w, [workers[w] EXCEPT !.pc = "clear"], [line |-> "bestmove", go |-> w])

\* RUNNING.store(false)
ClearRunning(w) ==
    /\ workers[w].pc = "clear"
    /\ RUNNING' = FALSE
    /\ workers' = [workers EXCEPT ![w].pc = "unlock"]
    /\ UNCHANGED <<pc, uciBoard, SHOULD_STOP, cache, cacheLock, output, uciLast, games, handled>>
    /\ UNCHANGED <<boardVars, storageVars, slidingVars, fenVars, searchVars, optionVars>>

\* The end of the closure drops the guard.
ReleaseCache(w) ==
    /\ workers[w].pc = "unlock"
    /\ WorkerStep(w, [workers[w] EXCEPT !.pc = "done"], cache, [cacheLock EXCEPT !.holder = None])

NextUci ==
    \/ \E text \in UciPositions : Position(text)
    \/ Go
    \/ Stop
    \/ StopWaitEnds
    \/ UciNewGame
    \/ CacheReset
    \/ Quit
    \/ /\ pc # "exited"
       /\ \E w \in 1 .. Len(workers) :
             \/ WorkerLock(w)
             \/ SearchStart(w)
             \/ MinimaxEnter(w)
             \/ MinimaxLoop(w)
             \/ SearchLoop(w)
             \/ SendInfo(w)
             \/ SendBestMove(w)
             \/ ClearRunning(w)
             \/ ReleaseCache(w)

SpecUci == InitUci /\ [][NextUci]_vars

(***************************************************************************)
(* The options of the UCI front end: the names UciOptions declares and the *)
(* values a GlobalState stores for them.  An Option is the set of its      *)
(* values, empty for None and a single element for Some; a HashMap is a    *)
(* function on its keys.                                                   *)
(***************************************************************************)
\* UciOptions::iter(): the variants in their order of declaration.
UciOptions == <<"Example">>

\* UciOptions::get_type: the configuration of an option, a button with its
\* name.
get_type(option) == [kind |-> "Button", name |-> option]

\* UciOptionConfig::get_name
get_name(config) == config.name

\* str::to_ascii_lowercase: the letters A to Z become a to z and every other
\* character stays.
RECURSIVE to_ascii_lowercase(_)
to_ascii_lowercase(s) ==
    LET upper == "ABCDEFGHIJKLMNOPQRSTUVWXYZ"
        lower == "abcdefghijklmnopqrstuvwxyz"
        c == Char(s, 1)
    IN IF s = ""
       THEN ""
       ELSE (IF \E i \in 1 .. 26 : Char(upper, i) = c
             THEN Char(lower, CHOOSE i \in 1 .. 26 : Char(upper, i) = c)
             ELSE c) \o to_ascii_lowercase(SubSeq(s, 2, Len(s)))

\* UciOptions::from_string: the first option whose name equals the
\* lowercased text.
from_string(s) ==
    LET lower == to_ascii_lowercase(s)
        found == {i \in 1 .. Len(UciOptions) : get_name(get_type(UciOptions[i])) = lower}
    IN IF found = {} THEN {}
       ELSE {UciOptions[CHOOSE i \in found : \A j \in found : i <= j]}

\* HashMap::insert and HashMap::remove
set_option(stored, option, value) == [o \in DOMAIN stored \cup {option} |-> IF o = option THEN value ELSE stored[o]]
unset_option(stored, option) == [o \in DOMAIN stored \ {option} |-> stored[o]]

\* GlobalState::get_option
get_option(stored, option) == IF option \in DOMAIN stored THEN {stored[option]} ELSE {}

\* GlobalState::set_option_named and unset_option_named: the stored options
\* and the result, Err(()) when from_string finds no option.
set_option_named(stored, option, value) ==
    LET o == from_string(option)
    IN IF o = {}
       THEN [options |-> stored, result |-> [status |-> "Err"]]
       ELSE [options |-> set_option(stored, CHOOSE x \in o : TRUE, value),
             result |-> [status |-> "Ok", option |-> CHOOSE x \in o : TRUE]]

unset_option_named(stored, option) ==
    LET o == from_string(option)
    IN IF o = {}
       THEN [options |-> stored, result |-> [status |-> "Err"]]
       ELSE [options |-> unset_option(stored, CHOOSE x \in o : TRUE),
             result |-> [status |-> "Ok", option |-> CHOOSE x \in o : TRUE]]

\* The names and values the calls are made with.
OptionNames == {"Example", "example", "EXAMPLE", "eXaMpLe", "Hash", ""}
OptionValues == {"", "1", "32", "on"}

\* GlobalState::new()
InitOptions ==
    /\ globalOptions = <<>>
    /\ optionLast = [op |-> "new"]
    /\ IdleBoard /\ IdleStorage /\ IdleSliding /\ IdleFen /\ IdleUci /\ IdleSearch

SetOption(option, value) ==
    /\ globalOptions' = set_option(globalOptions, option, value)
    /\ optionLast' = [op |-> "set_option", option |-> option, value |-> value]
    /\ UNCHANGED <<boardVars, storageVars, slidingVars, fenVars, uciVars, searchVars>>

UnsetOption(option) ==
    /\ globalOptions' = unset_option(globalOptions, option)
    /\ optionLast' = [op |-> "unset_option", option |-> option]
    /\ UNCHANGED <<boardVars, storageVars, slidingVars, fenVars, uciVars, searchVars>>

SetOptionNamed(option, value) ==
    /\ globalOptions' = set_option_named(globalOptions, option, value).options
    /\ optionLast' = [op |-> "set_option_named", option |-> option, value |-> value,
                      before |-> globalOptions,
                      result |-> set_option_named(globalOptions, option, value).result]
    /\ UNCHANGED <<boardVars, storageVars, slidingVars, fenVars, uciVars, searchVars>>

UnsetOptionNamed(option) ==
    /\ globalOptions' = unset_option_named(globalOptions, option).options
    /\ optionLast' = [op |-> "unset_option_named", option |-> option,
                      before |-> globalOptions,
                      result |-> unset_option_named(globalOptions, option).result]
    /\ UNCHANGED <<boardVars, storageVars, slidingVars, fenVars, uciVars, searchVars>>

NextOptions ==
    \/ \E i \in 1 .. Len(UciOptions), value \in OptionValues : SetOption(UciOptions[i], value)
    \/ \E i \in 1 .. Len(UciOptions) : UnsetOption(UciOptions[i])
    \/ \E option \in OptionNames, value \in OptionValues : SetOptionNamed(option, value)
    \/ \E option \in OptionNames : UnsetOptionNamed(option)

SpecOptions == InitOptions /\ [][NextOptions]_vars

(***************************************************************************)
(* The search.  One thread calls search, search calls minimax and minimax  *)
(* calls itself; the calls in progress are the frames of callStack, the    *)
(* last one being the call that runs, and a step runs the code of that     *)
(* call up to its next call or return.  The heat maps eval adds up are not *)
(* part of the sources, so the static score of a position is an input; so  *)
(* is the game: a board is written as the number of its position, a move   *)
(* as the number of the position it leads to, and positions reached by     *)
(* different routes share their number and their hash.  f32 scores are     *)
(* integers, with INFINITY above every sum eval can give.                  *)
(***************************************************************************)
SEARCH_DEPTH == 2
MaxSearches == 2
MaxStops == 1
INFINITY == 100
NEG_INFINITY == 0 - INFINITY

\* compute_legal_moves: the legal moves of a position in the order they
\* are generated.  Positions 0, 3, 4, 5, 9, 10 and 11 have Black to move,
\* the others White; 4 and 7 are reached by two routes; 8 and 12 have no
\* legal move.
GameMoves(p) ==
    CASE p = 0 -> <<1, 2>>
      [] p = 1 -> <<3, 4>>
      [] p = 2 -> <<4, 5>>
      [] p = 3 -> <<6, 7>>
      [] p = 4 -> <<7, 8>>
      [] p = 5 -> <<8>>
      [] p = 6 -> <<9, 10>>
      [] p = 7 -> <<10, 11>>
      [] OTHER -> <<>>

\* The moves of GameMoves(p) that are legal by the rules of chess.
\* compute_legal_moves also gives moves that leave the mover's king
\* attacked (a pawn pinned along a rank that the slider table misses, an
\* en-passant capture that opens the rank to a queen): the first move of
\* position 1 stands for such a move.
LegalByTheRules(p) ==
    {GameMoves(p)[i] : i \in 1 .. Len(GameMoves(p))} \ (IF p = 1 THEN {GameMoves(p)[1]} ELSE {})

\* board.color_to_move().is_white()
WhiteToMove(p) == p \in {1, 2, 6, 7, 8, 12}

\* board.hash()
HashOf(p) == [position |-> p]

\* board.make_move(mv) gives the board after the move and the token that
\* undoes it.
Made(p, mv) == [board |-> mv, um |-> [before |-> p]]

\* board.unmake_last_move(um) gives back the board of the token.
\* A variant that leaves the board as it is.
UnmadeForgotten(p, um) == p

Unmade(p, um) == um.before

\* The positions search is called on, and those eval is called on with
\* the scores it may give them.
SearchRoots == {0, 1, 12}
EvalPositions == 6 .. 11
Scores == {0 - 1, 0, 1}

\* eval(board)
eval(p) == IF p \in DOMAIN scores THEN scores[p] ELSE 0

\* cache.saved_positions.get(&board.hash()) and the test of its depth: the
\* score minimax returns at once, if any.
\* Variants that take an entry of any depth, and only a deeper entry.
cache_probe_any_depth(entries, h, depth_remaining, white) ==
    {IF white THEN e.white_score ELSE 0 - e.white_score : e \in {x \in entries : x.hash = h}}

cache_probe_deeper_only(entries, h, depth_remaining, white) ==
    {IF white THEN e.white_score ELSE 0 - e.white_score :
        e \in {x \in entries : x.hash = h /\ x.depth_searched > depth_remaining}}

cache_probe(entries, h, depth_remaining, white) ==
    {IF white THEN e.white_score ELSE 0 - e.white_score :
        e \in {x \in entries : x.hash = h /\ ~(x.depth_searched < depth_remaining)}}

\* cache.saved_positions.push(hash, (depth_remaining, best_white_eval))
push(entries, h, depth_remaining, best_eval, white) ==
    {x \in entries : x.hash # h}
        \cup {[hash |-> h, depth_searched |-> depth_remaining,
               white_score |-> IF white THEN best_eval ELSE 0 - best_eval]}

\* best_eval > -prune
\* A variant that compares with prune itself.
branch_pruned_without_negation(best_eval, prune) == best_eval > prune

branch_pruned(best_eval, prune) == best_eval > 0 - prune

\* ev > best_eval in the loop of search
\* A variant that also takes a later move of the same score.
search_prefers_later(ev, best_eval) == ev >= best_eval

search_prefers(ev, best_eval) == ev > best_eval

\* The frame of a call of minimax that has not yet run.
MinimaxFrame(p, depth_remaining, prune) ==
    [fn |-> "minimax", board |-> p, depth_remaining |-> depth_remaining, prune |-> prune,
     options |-> <<>>, k |-> 0, best_move |-> None, best_eval |-> NEG_INFINITY,
     um |-> [before |-> p], pc |-> "enter", exact |-> TRUE, cut |-> FALSE]

Top == callStack[Len(callStack)]
Below == SubSeq(callStack, 1, Len(callStack) - 1)
Running(fn, point) == callStack # <<>> /\ Top.fn = fn /\ Top.pc = point
Probed == {x \in saved_positions : x.hash = HashOf(searchBoard)}

\* The running call makes the move mv and calls minimax on the board after
\* it; its own frame waits as caller.
Calls(caller, mv, depth_remaining, prune) ==
    /\ callStack' = Below \o <<[caller EXCEPT !.um = Made(searchBoard, mv).um],
                               MinimaxFrame(Made(searchBoard, mv).board, depth_remaining, prune)>>
    /\ searchBoard' = Made(searchBoard, mv).board
    /\ ret' = NotYet
    /\ observed' = [observed EXCEPT !.made_after_stop = @ \/ observed.stop]
    /\ searchLast' = [op |-> "call", fn |-> Top.fn, point |-> Top.pc, position |-> Top.board,
                      depth_remaining |-> Top.depth_remaining, probed |-> Probed, made |-> mv]
    /\ UNCHANGED <<scores, saved_positions, stopping, searched, stops>>
    /\ UNCHANGED <<boardVars, storageVars, slidingVars, fenVars, uciVars, optionVars>>

\* The running call goes on in its own code with the board p.
Continues(frame, p) ==
    /\ callStack' = Below \o <<frame>>
    /\ searchBoard' = p
    /\ ret' = NotYet
    /\ searchLast' = [op |-> "continue", fn |-> Top.fn, point |-> Top.pc, position |-> Top.board]
    /\ UNCHANGED <<scores, saved_positions, stopping, observed, searched, stops>>
    /\ UNCHANGED <<boardVars, storageVars, slidingVars, fenVars, uciVars, optionVars>>

\* The running call returns value on the return path named, leaving the
\* board p and the cache entries.
Returns(frame, value, path, p, entries) ==
    /\ callStack' = Below
    /\ searchBoard' = p
    /\ ret' = [status |-> "returned", value |-> value,
               exact |-> frame.exact /\ path \notin {"cache hit", "stop"},
               cut |-> frame.cut \/ path \in {"cutoff", "+infinity"}]
    /\ saved_positions' = entries
    /\ observed' = [observed EXCEPT
                        !.stop = @ \/ path = "stop",
                        !.hit = @ \/ path = "cache hit",
                        !.foreign = @ \/ (path = "cache hit" /\ \E e \in Probed :
                                             e.hash \notin observed.own \/ e.depth_searched > frame.depth_remaining),
                        !.own = @ \cup {e.hash : e \in entries \ saved_positions}]
    /\ searchLast' = [op |-> "return", fn |-> frame.fn, point |-> frame.pc, path |-> path,
                      position |-> frame.board, left |-> p,
                      depth_remaining |-> frame.depth_remaining, prune |-> frame.prune,
                      options |-> frame.options, k |-> frame.k, value |-> value,
                      exact |-> frame.exact /\ path \notin {"cache hit", "stop"},
                      cut |-> frame.cut \/ path \in {"cutoff", "+infinity"},
                      best_eval |-> frame.best_eval, best_move |-> frame.best_move,
                      probed |-> Probed, pushed |-> entries \ saved_positions,
                      replaced |-> saved_positions \ entries]
    /\ UNCHANGED <<scores, stopping, searched, stops>>
    /\ UNCHANGED <<boardVars, storageVars, slidingVars, fenVars, uciVars, optionVars>>

InitSearch ==
    /\ scores \in [EvalPositions -> Scores]
    /\ searchBoard = None
    /\ saved_positions = {}
    /\ callStack = <<>>
    /\ ret = NotYet
    /\ stopping = FALSE
    /\ observed = [stop |-> FALSE, hit |-> FALSE, foreign |-> FALSE, own |-> {}, made_after_stop |-> FALSE]
    /\ searchLast = [op |-> "new"]
    /\ searched = 0
    /\ stops = 0
    /\ IdleBoard /\ IdleStorage /\ IdleSliding /\ IdleFen /\ IdleUci /\ IdleOptions

\* minimax from its first line to the call for the first move: the score
\* of eval at depth 0, the score of a cache entry deep enough, negative
\* infinity without a legal move.
MinimaxEnters ==
    /\ Running("minimax", "enter")
    /\ LET hit == cache_probe(saved_positions, HashOf(searchBoard), Top.depth_remaining, WhiteToMove(searchBoard))
           options == GameMoves(searchBoard)
       IN IF Top.depth_remaining = 0
          THEN Returns(Top, eval(searchBoard), "depth 0", searchBoard, saved_positions)
          ELSE IF hit # {}
          THEN Returns(Top, CHOOSE v \in hit : TRUE, "cache hit", searchBoard, saved_positions)
          ELSE IF options = <<>>
          THEN Returns(Top, NEG_INFINITY, "no legal moves", searchBoard, saved_positions)
          ELSE Calls([Top EXCEPT !.options = options, !.k = 1, !.best_move = options[1], !.pc = "first"],
                     options[1], Top.depth_remaining - 1, NEG_INFINITY)

\* The first move is unmade; its score prunes the branch or the loop over
\* the other moves begins.
MinimaxFirstReturns ==
    /\ Running("minimax", "first")
    /\ LET p == Unmade(searchBoard, Top.um)
           best_eval == 0 - ret.value
           frame == [Top EXCEPT !.best_eval = best_eval, !.exact = @ /\ ret.exact, !.cut = @ \/ ret.cut]
       IN IF branch_pruned(best_eval, Top.prune)
          THEN Returns(frame, best_eval, "cutoff", p, saved_positions)
          ELSE Continues([frame EXCEPT !.pc = "loop", !.k = 2], p)

\* The head of the loop: after the last move the score is pushed into the
\* cache and returned; before another move stop_fn is asked, and the best
\* score so far is returned when it says true; otherwise the move is made.
MinimaxNextMove ==
    /\ Running("minimax", "loop")
    /\ IF Top.k > Len(Top.options)
       THEN Returns(Top, Top.best_eval, "completed", searchBoard,
                    push(saved_positions, HashOf(searchBoard), Top.depth_remaining, Top.best_eval,
                         WhiteToMove(searchBoard)))
       ELSE IF stopping
       THEN Returns(Top, Top.best_eval, "stop", searchBoard, saved_positions)
       ELSE Calls([Top EXCEPT !.pc = "move"], Top.options[Top.k], Top.depth_remaining - 1, Top.best_eval)

\* The move is unmade; positive infinity is returned at once, a better
\* score is kept and may prune the branch.
MinimaxMoveReturns ==
    /\ Running("minimax", "move")
    /\ LET p == Unmade(searchBoard, Top.um)
           ev == 0 - ret.value
           frame == [Top EXCEPT !.exact = @ /\ ret.exact, !.cut = @ \/ ret.cut, !.k = @ + 1, !.pc = "loop"]
           better == [frame EXCEPT !.best_move = Top.options[Top.k], !.best_eval = ev]
       IN IF ev = INFINITY
          THEN Returns(frame, ev, "+infinity", p, saved_positions)
          ELSE IF ev > Top.best_eval
          THEN IF branch_pruned(ev, Top.prune)
               THEN Returns(better, ev, "cutoff", p, saved_positions)
               ELSE Continues(better, p)
          ELSE Continues(frame, p)

\* search from its first line to the call of minimax for the first move;
\* options[0] panics on an empty list.  stop_fn says false when a search
\* begins.
SearchEnters(root) ==
    /\ callStack = <<>>
    /\ searched < MaxSearches
    /\ searchLast.op # "panic"
    /\ searched' = searched + 1
    /\ stopping' = FALSE
    /\ ret' = NotYet
    /\ LET options == GameMoves(root)
       IN IF options = <<>>
          THEN /\ searchLast' = [op |-> "panic", fn |-> "search", position |-> root]
               /\ searchBoard' = root
               /\ observed' = [stop |-> FALSE, hit |-> FALSE, foreign |-> FALSE, own |-> {}, made_after_stop |-> FALSE]
               /\ UNCHANGED callStack
          ELSE /\ callStack' = <<[fn |-> "search", board |-> root, depth_remaining |-> SEARCH_DEPTH,
                                  prune |-> NEG_INFINITY, options |-> options, k |-> 1,
                                  best_move |-> options[1], best_eval |-> NEG_INFINITY,
                                  um |-> Made(root, options[1]).um, pc |-> "first", exact |-> TRUE,
                                  cut |-> FALSE],
                                 MinimaxFrame(Made(root, options[1]).board, SEARCH_DEPTH, NEG_INFINITY)>>
               /\ searchBoard' = Made(root, options[1]).board
               /\ observed' = [stop |-> FALSE, hit |-> FALSE, foreign |-> FALSE, own |-> {}, made_after_stop |-> FALSE]
               /\ searchLast' = [op |-> "call", fn |-> "search", point |-> "enter", position |-> root,
                                 depth_remaining |-> SEARCH_DEPTH, probed |-> {}, made |-> options[1]]
    /\ UNCHANGED <<scores, saved_positions, stops>>
    /\ UNCHANGED <<boardVars, storageVars, slidingVars, fenVars, uciVars, optionVars>>

\* The first move is unmade and its score kept.
SearchFirstReturns ==
    /\ Running("search", "first")
    /\ Continues([Top EXCEPT !.best_eval = 0 - ret.value, !.exact = @ /\ ret.exact, !.cut = @ \/ ret.cut,
                             !.pc = "loop", !.k = 2],
                 Unmade(searchBoard, Top.um))

\* The head of the loop of search: Some(best_move) after the last move and
\* when stop_fn says true; otherwise the move is made.
\* A variant that does not ask stop_fn.
SearchNextMoveWithoutPoll ==
    /\ Running("search", "loop")
    /\ IF Top.k > Len(Top.options)
       THEN Returns(Top, Top.best_move, "completed", searchBoard, saved_positions)
       ELSE Calls([Top EXCEPT !.pc = "move"], Top.options[Top.k], SEARCH_DEPTH, Top.best_eval)

SearchNextMove ==
    /\ Running("search", "loop")
    /\ IF Top.k > Len(Top.options)
       THEN Returns(Top, Top.best_move, "completed", searchBoard, saved_positions)
       ELSE IF stopping
       THEN Returns(Top, Top.best_move, "stop", searchBoard, saved_positions)
       ELSE Calls([Top EXCEPT !.pc = "move"], Top.options[Top.k], SEARCH_DEPTH, Top.best_eval)

\* The move is unmade and kept when its score is better.
SearchMoveReturns ==
    /\ Running("search", "move")
    /\ LET ev == 0 - ret.value
           frame == [Top EXCEPT !.exact = @ /\ ret.exact, !.cut = @ \/ ret.cut, !.k = @ + 1, !.pc = "loop"]
       IN IF search_prefers(ev, Top.best_eval)
          THEN Continues([frame EXCEPT !.best_move = Top.options[Top.k], !.best_eval = ev],
                         Unmade(searchBoard, Top.um))
          ELSE Continues(frame, Unmade(searchBoard, Top.um))

\* stop_fn begins to say true, and goes on saying so until the search ends.
StopFnTurnsTrue ==
    /\ callStack # <<>>
    /\ ~stopping
    /\ stops < MaxStops
    /\ stopping' = TRUE
    /\ stops' = stops + 1
    /\ UNCHANGED <<scores, searchBoard, saved_positions, callStack, ret, observed, searchLast, searched>>
    /\ UNCHANGED <<boardVars, storageVars, slidingVars, fenVars, uciVars, optionVars>>

NextSearch ==
    \/ \E root \in SearchRoots : SearchEnters(root)
    \/ MinimaxEnters
    \/ MinimaxFirstReturns
    \/ MinimaxNextMove
    \/ MinimaxMoveReturns
    \/ SearchFirstReturns
    \/ SearchNextMove
    \/ SearchMoveReturns
    \/ StopFnTurnsTrue

SpecSearch == InitSearch /\ [][NextSearch]_vars

(***************************************************************************)
(* The properties.                                                         *)
(***************************************************************************)
\* The move list as a set, and the number of times a move is in the list.
Emitted == {moves.list[i] : i \in 1 .. Len(moves.list)}
TimesEmitted(mv) == Cardinality({i \in 1 .. Len(moves.list) : moves.list[i] = mv})

\* mv is an en-passant capture on b: a pawn changing file onto the empty
\* en-passant destination.
IsEnPassant(b, mv) ==
    /\ StorageGet(b.pieces, mv.source) # None
    /\ kind(StorageGet(b.pieces, mv.source)) = Pawn
    /\ mv.destination = b.en_passant_destination
    /\ file(mv.source) # file(mv.destination)

OnOneLine(a, b) == file(a) = file(b) \/ rank(a) = rank(b)
OnOneDiagonal(a, b) ==
    a # b /\ (file(b) - file(a) = rank(b) - rank(a) \/ file(b) - file(a) = rank(a) - rank(b))

\* The squares strictly between two squares of one rank, file or diagonal.
Between(a, b) ==
    IF a # b /\ (OnOneLine(a, b) \/ OnOneDiagonal(a, b))
    THEN ray_bitboard(a, {b}, signum(file(b) - file(a)), signum(rank(b) - rank(a))) \ {b}
    ELSE {}

\* The enemy pieces that would attack the king of the side to move along a
\* line were the squares between empty: rooks and queens on its rank or
\* file, bishops and queens on its diagonals.
LineAttackers(b) ==
    LET st == b.pieces
        k == KingSquare(st, b.color_to_move)
    IN {a \in ColorBitboard(st, Not(b.color_to_move)) :
          \/ kind(StorageGet(st, a)) \in {Rook, Queen} /\ OnOneLine(k, a)
          \/ kind(StorageGet(st, a)) \in {Bishop, Queen} /\ OnOneDiagonal(k, a)}

\* The pieces of the side to move that are the only piece between their king
\* and such an attacker.
PinnedPieces(b) ==
    LET st == b.pieces
        k == KingSquare(st, b.color_to_move)
    IN {s \in ColorBitboard(st, b.color_to_move) :
          \E a \in LineAttackers(b) : Between(k, a) \cap Occupancy(st) = {s}}

\* The enemy pieces that give check.
Checkers(b) ==
    {a \in ColorBitboard(b.pieces, Not(b.color_to_move)) :
       KingSquare(b.pieces, b.color_to_move) \in AttackedFrom(b.pieces, a)}

\* The pawn on source and the pawn it would take en passant stand on the
\* king's rank and are the only pieces between the king and an enemy rook or
\* queen on that rank.
EnPassantExposesKing(b, source) ==
    LET st == b.pieces
        k == KingSquare(st, b.color_to_move)
        taken == at(file(b.en_passant_destination), rank(source))
    IN \E a \in ColorBitboard(st, Not(b.color_to_move)) :
          /\ kind(StorageGet(st, a)) \in {Rook, Queen}
          /\ rank(a) = rank(k)
          /\ rank(source) = rank(k)
          /\ Between(k, a) \cap Occupancy(st) = {source, taken}

\* C1: a legal move made and then unmade with the returned token leaves the
\* board equal to the board before the move in every field (pieces, side to
\* move, en-passant destination, castling rights, both clocks) and in its
\* hash.
C1_UnmakeRestoresBoard == last.op = "unmake" => board = last.before

\* An en-passant capture, made two plies into a game, has been unmade.
C1_Witness ==
    /\ last.op = "unmake"
    /\ last.class = "en passant"
    /\ Len(stack) = 1
    /\ board = last.before

\* C2: after any sequence of legal moves made and unmade in LIFO order, the
\* hash kept incrementally equals the hash Board::new computes from the
\* current pieces, side to move, en-passant destination and castling rights.
C2_HashIsRecomputedHash ==
    board.hash = BoardNew(PieceArray(board.pieces), board.color_to_move,
                          board.en_passant_destination, board.castling_rights,
                          board.halfmoves_since_event, board.fullmoves).hash

\* A double push has set an en-passant destination and the capture en
\* passant has then been made.
C2_Witness ==
    /\ Len(stack) = 2
    /\ stack[1].class = "double push"
    /\ stack[2].before.en_passant_destination # None
    /\ last.op = "make"
    /\ last.class = "en passant"

\* C3: every move compute_legal_moves emits is legal: pseudo-legal for a
\* piece of the side to move and, once made, leaving the mover's king
\* unattacked.
C3_EmittedMovesAreLegal ==
    moves.status = "ok" => \A mv \in Emitted : mv \in LegalMoves(board)

\* C4: every legal move of the position is emitted by compute_legal_moves.
C4_LegalMovesAreEmitted ==
    moves.status = "ok" => \A mv \in LegalMoves(board) : mv \in Emitted

\* C5: after any sequence of set calls the mailbox holds p at s exactly when
\* bitboard p has bit s set, at most one bitboard has bit s set, and the last
\* set call returned its input hash XORed with the key of the piece it removed
\* from the square (if any) and the key of the piece it placed (if any).
C5_StorageInSync ==
    /\ \A s \in Squares : \A p \in Pieces :
          (ps.square_contents[s] = p) <=> (s \in ps.piece_bitboards[p])
    /\ \A s \in Squares :
          Cardinality({p \in Pieces : s \in ps.piece_bitboards[p]}) <= 1
    /\ psLast.op = "set" =>
          psHash = Xor(Xor(psLast.input,
                           IF psLast.removed # None
                           THEN {PIECE_HASHES(psLast.removed, psLast.sq)} ELSE {}),
                       IF psLast.contents # None
                       THEN {PIECE_HASHES(psLast.contents, psLast.sq)} ELSE {})

\* A set call has replaced one piece by a different one.
C5_Witness ==
    /\ psLast.op = "set"
    /\ psLast.removed # None
    /\ psLast.contents # None
    /\ psLast.removed # psLast.contents

\* C6: compute_legal_moves never emits an en-passant capture when the
\* capturing pawn and the pawn it would take stand on the king's rank and are
\* the only pieces between the king and an enemy rook or queen on that rank,
\* on either side of the king.
C6_NoEnPassantExposingKing ==
    moves.status = "ok" =>
        \A mv \in Emitted :
            IsEnPassant(board, mv) => ~EnPassantExposesKing(board, mv.source)

\* C7: the kingside castling move is emitted exactly when the mover holds
\* the kingside right, F and G are empty and not attacked, the mover is not
\* in check and the own rook stands on the H corner; the queenside move
\* exactly when the mover holds the queenside right, B, C and D are empty, C
\* and D are not attacked, the mover is not in check and the own rook stands
\* on the A corner.
C7_CastlingExactlyWhenAllowed ==
    moves.status = "ok" =>
        LET st == board.pieces
            c == board.color_to_move
            r == back_rank(c)
            KingOnE == StorageGet(st, at(4, r)) = PieceNew(King, c)
            Empty(f) == StorageGet(st, at(f, r)) = None
            Safe(f) == ~IsAttacked(st, at(f, r), Not(c))
        IN /\ (KingOnE /\ Move(at(4, r), at(6, r), None) \in Emitted)
              <=> /\ kingside(board.castling_rights, c)
                  /\ Empty(5) /\ Empty(6)
                  /\ Safe(5) /\ Safe(6)
                  /\ ~InCheck(st, c)
                  /\ StorageGet(st, at(7, r)) = PieceNew(Rook, c)
           /\ (KingOnE /\ Move(at(4, r), at(2, r), None) \in Emitted)
              <=> /\ queenside(board.castling_rights, c)
                  /\ Empty(1) /\ Empty(2) /\ Empty(3)
                  /\ Safe(2) /\ Safe(3)
                  /\ ~InCheck(st, c)
                  /\ StorageGet(st, at(0, r)) = PieceNew(Rook, c)

\* C8: a piece of the side to move is treated as pinned exactly when it is
\* the only piece between its king and an enemy rook, bishop or queen that
\* attacks along that line, and every move emitted for a pinned piece has
\* its destination on the line through the king and the piece.
C8_PinnedExactlyWhenOnlyBlocker ==
    moves.status = "ok" =>
        LET st == board.pieces
            k == KingSquare(st, board.color_to_move)
            Line(s) ==
                ray_bitboard_empty(k, signum(file(s) - file(k)), signum(rank(s) - rank(k)))
                    \cup ray_bitboard_empty(k, signum(file(k) - file(s)),
                                            signum(rank(k) - rank(s)))
        IN /\ ChecksAnalysis(board).pinned_pieces_mask
                  \cap ColorBitboard(st, board.color_to_move) = PinnedPieces(board)
           /\ \A mv \in Emitted :
                  mv.source \in PinnedPieces(board) => mv.destination \in Line(mv.source)

\* C9: when exactly one enemy piece gives check, every emitted move of a
\* piece other than the king either captures the checking piece or lands
\* strictly between the king and the checking piece, the latter only when
\* that piece is a rook, bishop or queen.
C9_SingleCheckFilter ==
    (moves.status = "ok" /\ Cardinality(Checkers(board)) = 1) =>
        LET st == board.pieces
            k == KingSquare(st, board.color_to_move)
            checker == CHOOSE a \in Checkers(board) : TRUE
        IN \A mv \in Emitted :
              mv.source # k =>
                  \/ mv.destination = checker
                  \/ /\ IsEnPassant(board, mv)
                     /\ at(file(mv.destination), rank(mv.source)) = checker
                  \/ /\ kind(StorageGet(st, checker)) \in {Rook, Bishop, Queen}
                     /\ mv.destination \in Between(k, checker)

\* C10: for every pawn destination on the mover's promotion rank exactly the
\* four moves promoting to queen, rook, knight and bishop are emitted, each
\* once, and none without a promotion; every other emitted move has no
\* promotion.
C10_PromotionsExpandToFour ==
    moves.status = "ok" =>
        \A mv \in Emitted :
            IF /\ StorageGet(board.pieces, mv.source) # None
               /\ kind(StorageGet(board.pieces, mv.source)) = Pawn
               /\ rank(mv.destination) = promotion_rank(board.color_to_move)
            THEN /\ mv.promotion \in Promotions
                 /\ \A k \in Promotions :
                        TimesEmitted(Move(mv.source, mv.destination, k)) = 1
            ELSE mv.promotion = None

\* A pawn's capture onto the promotion rank has been emitted, next to moves
\* of other pieces.
C10_Witness ==
    /\ moves.status = "ok"
    /\ \E mv \in Emitted :
          /\ mv.promotion = Knight
          /\ file(mv.source) # file(mv.destination)
          /\ StorageGet(board.pieces, mv.destination) # None
    /\ \E mv \in Emitted : mv.promotion = None

\* C11: for rook and bishop, every square and every occupancy, get_attack_set
\* returns the ray-walked attack set (each ray ends at, and includes, the
\* first occupied square), and two subsets of the relevant mask share a
\* table index only if their attack sets are equal: here the relevant part
\* of the occupancy and the subset whose attack set compute() left at its
\* index.
C11_MagicLookupIsRayWalk ==
    lookup.op = "get_attack_set" =>
        LET table == IF lookup.rook THEN RookTable ELSE BishopTable
            generate(occupancy_bitboard) ==
                IF lookup.rook
                THEN generate_rook_attack_set(lookup.sq, occupancy_bitboard)
                ELSE generate_bishop_attack_set(lookup.sq, occupancy_bitboard)
            relevant == lookup.all_pieces_bitboard
                            \cap table.relevant_occupancy_masks[lookup.sq + 1]
            stored == LastCombination(table, lookup.sq,
                                      SlidingKey(table, lookup.sq, relevant))
        IN /\ lookup.result = generate(lookup.all_pieces_bitboard)
           /\ SlidingKey(table, lookup.sq, stored) = SlidingKey(table, lookup.sq, relevant)
                  => generate(stored) = generate(relevant)

\* C12: for every canonical six-field FEN text, from_fen succeeds and to_fen
\* on the board it returns writes the same text, character for character.
C12_FenRoundTrip ==
    fen \in CanonicalFens =>
        /\ parsed.status # "Err"
        /\ printed.status = "written" => printed.text = fen
\* A canonical text with castling letters, an en-passant square and the
\* largest clocks has been parsed and written back.
C12_Witness ==
    /\ fen = "r3k2r/p1ppqpb1/bn2pnp1/3PN3/1p2P3/2N2Q1p/PPPBBPPP/R3K2R b Qk d6 4294967295 65536"
    /\ parsed.status = "Ok"
    /\ printed.status = "written"
    /\ printed.text = fen

\* C13: from_fen returns an error for every text that leaves the format:
\* a field count other than six, a rank count other than eight or a rank
\* that does not describe exactly eight files, an unknown piece letter, a
\* side other than w or b, a castling field that is neither "-" nor a
\* non-empty subset of KQkq, an invalid en-passant square, a clock that is
\* not a number.
C13_MalformedFenIsAnError ==
    fen \in MalformedFens /\ parsed # NotYet => parsed.status = "Err"

\* C17: in every position reached by legal moves a castling right is set
\* only if the king of that colour stands on the E file of its back rank
\* and the rook of that colour stands on the corner of that side.
C17_RightsNeedKingAndRookAtHome ==
    \A c \in {White, Black} :
        LET home(k, f) == StorageGet(board.pieces, at(f, back_rank(c))) = PieceNew(k, c)
        IN /\ kingside(board.castling_rights, c) => home(King, 4) /\ home(Rook, 7)
           /\ queenside(board.castling_rights, c) => home(King, 4) /\ home(Rook, 0)

\* C18: after a double pawn push the en-passant destination is the square
\* the pawn passed over if and only if an enemy pawn stands beside the
\* pawn's destination on the same rank; after any other move there is no
\* en-passant destination.
C18_EnPassantDestinationAfterMove ==
    last.op = "make" =>
        LET b0 == last.before
            source == last.mv.source
            destination == last.mv.destination
            piece == StorageGet(b0.pieces, source)
            enemy_pawn == PieceNew(Pawn, Not(color(piece)))
            double_push ==
                /\ kind(piece) = Pawn
                /\ rank(destination) - rank(source) \in {2, 0 - 2}
            passed_over == at(file(source), (rank(source) + rank(destination)) \div 2)
            beside ==
                \E f \in 0 .. 7 :
                    /\ f - file(destination) \in {1, 0 - 1}
                    /\ StorageGet(b0.pieces, at(f, rank(destination))) = enemy_pawn
        IN IF double_push
           THEN (board.en_passant_destination = passed_over) <=> beside
           ELSE board.en_passant_destination = None
\* A double push beside an enemy pawn has set the destination, and a double
\* push with no enemy pawn beside it has set none.
C18_Witness ==
    /\ last.op = "make"
    /\ last.class = "double push"
    /\ board.en_passant_destination = at(3, 5)
    /\ StorageGet(board.pieces, at(4, 4)) = PieceNew(Pawn, White)

\* C19, amended: make_move sets the halfmove clock to 0 on a capture (an
\* en-passant capture included) or a pawn move and otherwise increases it
\* by one modulo 2^32; it gives the move to the other side; it increases the
\* fullmove number by one modulo 2^32 exactly when the move was Black's.
\* In a build with overflow checks make_move panics instead, and only when
\* a clock it increases is 2^32 - 1.
C19_ClocksModulo ==
    LET b0 == last.before
        piece == StorageGet(b0.pieces, last.mv.source)
        event ==
            \/ StorageGet(b0.pieces, last.mv.destination) # None
            \/ last.class = "en passant"
            \/ kind(piece) = Pawn
        Successor(v, w) ==
            IF v = U32_MAX THEN w = U32(0)
            ELSE \/ w[2] = v[2] /\ w[1] = v[1] + 1
                 \/ w[2] = v[2] + 1 /\ w[1] = 0 /\ v[1] = Limb - 1
    IN /\ last.op = "make" =>
            /\ IF event THEN board.halfmoves_since_event = U32(0)
               ELSE Successor(b0.halfmoves_since_event, board.halfmoves_since_event)
            /\ board.color_to_move = Not(b0.color_to_move)
            /\ IF b0.color_to_move = Black
               THEN Successor(b0.fullmoves, board.fullmoves)
               ELSE board.fullmoves = b0.fullmoves
       /\ last.op = "make panics" =>
            \/ b0.halfmoves_since_event = U32_MAX
            \/ b0.color_to_move = Black /\ b0.fullmoves = U32_MAX
\* Black has made a quiet move with both clocks at 2^32 - 1 and both are 0.
C19_Witness ==
    /\ last.op = "make"
    /\ last.class = "quiet"
    /\ last.before.color_to_move = Black
    /\ last.before.halfmoves_since_event = U32_MAX
    /\ last.before.fullmoves = U32_MAX
    /\ board.halfmoves_since_event = U32(0)
    /\ board.fullmoves = U32(0)
\* C19 as stated: every make_move returns with the halfmove clock at 0
\* after a capture or pawn move and one greater otherwise, the side to move
\* changed, and the fullmove number one greater exactly after Black's move.
C19_ClocksAsStated ==
    LET b0 == last.before
        piece == StorageGet(b0.pieces, last.mv.source)
        event ==
            \/ StorageGet(b0.pieces, last.mv.destination) # None
            \/ last.class = "en passant"
            \/ kind(piece) = Pawn
        OneGreater(v, w) ==
            \/ w[2] = v[2] /\ w[1] = v[1] + 1
            \/ w[2] = v[2] + 1 /\ w[1] = 0 /\ v[1] = Limb - 1
    IN /\ last.op # "make panics"
       /\ last.op = "make" =>
            /\ IF event THEN board.halfmoves_since_event = U32(0)
               ELSE OneGreater(b0.halfmoves_since_event, board.halfmoves_since_event)
            /\ board.color_to_move = Not(b0.color_to_move)
            /\ IF b0.color_to_move = Black
               THEN OneGreater(b0.fullmoves, board.fullmoves)
               ELSE board.fullmoves = b0.fullmoves

\* C20: make_move revokes both rights of a colour when its king moves or
\* castles, and the kingside (queenside) right when its rook leaves the H
\* (A) corner of its back rank; it never changes the other colour's rights
\* and never sets a right.
C20_RightsRevokedByMover ==
    last.op = "make" =>
        LET before == last.before.castling_rights
            after == board.castling_rights
            piece == StorageGet(last.before.pieces, last.mv.source)
            c == color(piece)
        IN /\ kind(piece) = King => ~kingside(after, c) /\ ~queenside(after, c)
           /\ kind(piece) = Rook /\ last.mv.source = at(7, back_rank(c))
                  => ~kingside(after, c)
           /\ kind(piece) = Rook /\ last.mv.source = at(0, back_rank(c))
                  => ~queenside(after, c)
           /\ kingside(after, Not(c)) = kingside(before, Not(c))
           /\ queenside(after, Not(c)) = queenside(before, Not(c))
           /\ kingside(after, c) => kingside(before, c)
           /\ queenside(after, c) => queenside(before, c)
\* A rook has left its H corner with all four rights set: its colour keeps
\* the queenside right only and the other colour keeps both.
C20_Witness ==
    /\ last.op = "make"
    /\ last.before.castling_rights = CastlingAll
    /\ kind(StorageGet(last.before.pieces, last.mv.source)) = Rook
    /\ last.mv.source = at(7, 0)
    /\ board.castling_rights = CastlingRightsNew(TRUE, FALSE, TRUE, TRUE)

\* C14: every go the adapter handles is answered: its worker writes exactly
\* one bestmove line, after an info line with a score, whatever the
\* position.  As a property of the states: no worker has ended without its
\* bestmove, no go has two bestmove lines, and every bestmove line comes
\* after an info line of the same go.
C14_EveryGoIsAnswered ==
    \A w \in 1 .. Len(workers) :
        LET best == {n \in 1 .. Len(output) :
                        output[n].go = w /\ output[n].line = "bestmove"}
        IN /\ workers[w].pc # "panicked"
           /\ Cardinality(best) <= 1
           /\ workers[w].pc \in {"clear", "unlock", "done"} => Cardinality(best) = 1
           /\ \A n \in best :
                  \E m \in 1 .. n - 1 :
                      output[m].go = w /\ output[m].line = "info score cp 0"

\* C15: when the adapter handles stop while a worker is running, the worker
\* finds the flag set, writes its bestmove and clears RUNNING, so the wait
\* loop ends.  As a property of the states: while the adapter waits with
\* RUNNING set, a worker is still on its way to clearing RUNNING.
C15_StopWaitCanEnd ==
    pc = "stop_wait" /\ RUNNING =>
        \E w \in 1 .. Len(workers) : workers[w].pc \notin {"panicked", "unlock", "done"}

\* C16: once ucinewgame is handled the cache holds no entry written before
\* it, so a search reads only entries written since; the reset happens
\* only while no worker holds the cache.
C16_NewGameClearsCache ==
    /\ \A e \in cache : e.epoch = games
    /\ \A w \in 1 .. Len(workers) :
           \A n \in 1 .. Len(workers[w].read) :
               workers[w].read[n].epoch = workers[w].epoch
    /\ uciLast.op = "ucinewgame" => uciLast.holder = None
\* ucinewgame arrived while a worker held the cache, waited, and then
\* cleared a cache with entries.
C16_Witness ==
    /\ uciLast.op = "ucinewgame"
    /\ uciLast.waited
    /\ uciLast.cleared # {}
    /\ cache = {}

\* C30: set_option_named called with the name of an option UciOptions
\* declares, in any letter case, stores the value and returns Ok, and
\* get_option then returns that value; called with any other name it
\* returns an error and leaves the stored options unchanged.
C30_DeclaredNameIsAccepted ==
    optionLast.op = "set_option_named" =>
        LET declared == {i \in 1 .. Len(UciOptions) : to_ascii_lowercase(get_name(get_type(UciOptions[i]))) = to_ascii_lowercase(optionLast.option)}
        IN IF declared # {}
           THEN /\ optionLast.result.status = "Ok"
                /\ get_option(globalOptions, optionLast.result.option) = {optionLast.value}
           ELSE /\ optionLast.result.status = "Err"
                /\ globalOptions = optionLast.before

\* C25: when a position command carries a malformed FEN the adapter
\* rejects the command: the board set before stays in effect and the
\* adapter keeps reading commands.
C25_MalformedPositionIsRejected ==
    (uciLast.op = "position" /\ \A r \in from_fen(uciLast.text) : r.status = "Err") =>
        /\ pc # "exited"
        /\ uciBoard = uciLast.before

\* The line of worker w with this text is in the output.
HasWritten(w, text) == \E n \in 1 .. Len(output) : output[n] = [line |-> text, go |-> w]

\* C26: the stop flag is reset to false only after the search that was
\* running has written its bestmove and cleared RUNNING; every worker is
\* spawned with the stop flag false; and the flag is set only while the
\* adapter handles the stop of the latest go, all earlier workers having
\* cleared RUNNING, so that a stop never reaches a later go.
C26_StopFlagResetAfterBestMove ==
    /\ uciLast.op = "stop ends" =>
          /\ ~uciLast.running
          /\ HasWritten(uciLast.go, "bestmove")
          /\ workers[uciLast.go].pc \in {"unlock", "done"}
    /\ (uciLast.op = "go" /\ Len(workers) > uciLast.workers) => ~uciLast.stop
    /\ \A w \in 1 .. Len(workers) : workers[w].pc = "spawned" /\ SHOULD_STOP => uciLast.op = "stop"
    /\ SHOULD_STOP =>
          /\ pc = "stop_wait"
          /\ uciLast.op = "stop" /\ uciLast.running /\ uciLast.go = Len(workers)
          /\ \A w \in 1 .. Len(workers) - 1 : workers[w].pc \in {"unlock", "done"}

\* A stop arrived during a search, the worker found the flag set, wrote its
\* bestmove and cleared RUNNING, and the wait ended with the flag reset.
C26_Witness ==
    /\ uciLast.op = "stop ends"
    /\ HasWritten(uciLast.go, "bestmove")
    /\ ~SHOULD_STOP
    /\ pc = "read"

\* The workers that have been spawned and have not yet cleared RUNNING or
\* panicked, and those that may touch the cache.
SearchWorkers == {w \in 1 .. Len(workers) : workers[w].pc \notin {"unlock", "done", "panicked"}}
CacheUsers == {w \in 1 .. Len(workers) : workers[w].pc \in {"search", "minimax", "replies", "loop"}}

RECURSIVE Negamax(_, _)
Negamax(p, d) ==
    IF d = 0 THEN eval(p)
    ELSE IF GameMoves(p) = <<>> THEN NEG_INFINITY
    ELSE LET values == {0 - Negamax(Made(p, GameMoves(p)[i]).board, d - 1) : i \in 1 .. Len(GameMoves(p))}
         IN CHOOSE v \in values : \A u \in values : u <= v

\* The last step was the beginning of a call of minimax with depth left.
ProbedTheCache ==
    /\ searchLast.op \in {"call", "return"}
    /\ searchLast.fn = "minimax"
    /\ searchLast.point = "enter"
    /\ searchLast.depth_remaining > 0

\* C21: in minimax with depth_remaining > 0, if the cache holds an entry
\* for the hash of the board with depth_searched >= depth_remaining, the
\* call returns the stored score when White is to move and its negation
\* when Black is to move, without generating or making a move; otherwise
\* (a shallower entry or none) the position is searched.
C21_CacheProbe ==
    ProbedTheCache =>
        LET deep == {e \in searchLast.probed : e.depth_searched >= searchLast.depth_remaining}
        IN IF deep # {}
           THEN /\ searchLast.op = "return"
                /\ searchLast.path = "cache hit"
                /\ \A e \in deep : searchLast.value = IF WhiteToMove(searchLast.position) THEN e.white_score ELSE 0 - e.white_score
                /\ searchLast.options = <<>>
                /\ searchLast.left = searchLast.position
           ELSE \/ searchLast.op = "call" /\ searchLast.made = GameMoves(searchLast.position)[1]
                \/ searchLast.op = "return" /\ searchLast.path = "no legal moves"

\* With Black to move, an entry deeper than asked for has given its score
\* negated.
C21_Witness ==
    /\ ProbedTheCache
    /\ searchLast.op = "return" /\ searchLast.path = "cache hit"
    /\ ~WhiteToMove(searchLast.position)
    /\ searchLast.value = 1
    /\ \E e \in searchLast.probed : e.depth_searched > searchLast.depth_remaining /\ e.white_score = 0 - 1

\* C22: a call of minimax writes the cache at most once, on its return
\* after the last of its legal moves and under the hash of its own
\* position; the entry it replaces, if any, has a smaller depth, so the
\* depth stored for a hash never decreases.
C22_CacheWrites ==
    /\ \A e1, e2 \in saved_positions : e1.hash = e2.hash => e1 = e2
    /\ searchLast.op = "return" =>
          /\ searchLast.pushed # {} =>
                /\ searchLast.fn = "minimax" /\ searchLast.path = "completed"
                /\ searchLast.pushed = {[hash |-> HashOf(searchLast.position),
                                         depth_searched |-> searchLast.depth_remaining,
                                         white_score |-> IF WhiteToMove(searchLast.position) THEN searchLast.value ELSE 0 - searchLast.value]}
          /\ (searchLast.fn = "minimax" /\ searchLast.path = "completed") =>
                /\ searchLast.k = Len(searchLast.options) + 1
                /\ \A old \in searchLast.probed : old.depth_searched < searchLast.depth_remaining
                /\ \E e \in saved_positions : e.hash = HashOf(searchLast.position) /\ e.depth_searched = searchLast.depth_remaining
          /\ searchLast.replaced \subseteq searchLast.probed
          /\ searchLast.pushed = {} => searchLast.replaced = {}

\* An entry of depth 1 has been replaced by one of depth 2.
C22_Witness ==
    /\ searchLast.op = "return" /\ searchLast.path = "completed"
    /\ searchLast.depth_remaining = 2
    /\ \E old \in searchLast.replaced : old.depth_searched = 1

\* C23: once stop_fn has said true to a call of minimax or search, and goes
\* on saying so, no move is made any more: that call and every call around
\* it return the best score, or the best move, they have found so far, and
\* search returns one of the legal moves of the root position.
C23_StopUnwinds ==
    /\ ~observed.made_after_stop
    /\ observed.stop => searchLast.op \in {"return", "continue"}
    /\ (observed.stop /\ searchLast.op = "return" /\ searchLast.fn = "minimax") =>
          \/ searchLast.value = searchLast.best_eval
          \/ searchLast.path = "+infinity" /\ searchLast.value = INFINITY
    /\ (observed.stop /\ searchLast.op = "return" /\ searchLast.fn = "search") =>
          /\ searchLast.value = searchLast.best_move
          /\ searchLast.value \in LegalByTheRules(searchLast.position)

\* The same with a move of the list compute_legal_moves has given in the
\* place of a legal move.
StopUnwindsToAGeneratedMove ==
    /\ ~observed.made_after_stop
    /\ observed.stop => searchLast.op \in {"return", "continue"}
    /\ (observed.stop /\ searchLast.op = "return" /\ searchLast.fn = "minimax") =>
          \/ searchLast.value = searchLast.best_eval
          \/ searchLast.path = "+infinity" /\ searchLast.value = INFINITY
    /\ (observed.stop /\ searchLast.op = "return" /\ searchLast.fn = "search") =>
          /\ searchLast.value = searchLast.best_move
          /\ \E i \in 1 .. Len(GameMoves(searchLast.position)) : GameMoves(searchLast.position)[i] = searchLast.value

\* stop_fn has said true to a call of minimax during the last move of the
\* root, the calls around it have returned, and search has returned that
\* last move.
StoppedInTheLastMove ==
    /\ searchLast.op = "return" /\ searchLast.fn = "search" /\ searchLast.path = "completed"
    /\ searchLast.value # searchLast.options[1]
    /\ observed.stop

\* The move search has returned is one of the moves in legal whose score,
\* the negation of the negamax value at SEARCH_DEPTH of the position after
\* it, is at least the score of every move in legal, and is the first
\* generated among those of the greatest score.
ReturnedBestMove(legal) ==
    LET options == GameMoves(searchLast.position)
        Score(i) == 0 - Negamax(Made(searchLast.position, options[i]).board, SEARCH_DEPTH)
        chosen == {i \in 1 .. Len(options) : options[i] = searchLast.value}
    IN /\ chosen # {}
       /\ searchLast.value \in legal
       /\ \A i \in chosen, j \in 1 .. Len(options) :
             options[j] \in legal =>
                /\ Score(j) <= Score(i)
                /\ j < i => Score(j) < Score(i)

\* C24: when stop_fn never says true, search returns a legal move of the
\* root whose score, the negation of the negamax value at SEARCH_DEPTH of
\* the position after it, is at least the score of every legal move of the
\* root, and among the moves of the greatest score the one generated first.
C24_SearchReturnsBestMove ==
    (searchLast.op = "return" /\ searchLast.fn = "search" /\ ~observed.stop) =>
        ReturnedBestMove(LegalByTheRules(searchLast.position))

\* The same over the moves compute_legal_moves has given, for a search in
\* which every cache entry a probe hits was written earlier in the same
\* search with exactly the depth asked for.
SearchOnOwnEntries ==
    (searchLast.op = "return" /\ searchLast.fn = "search" /\ ~observed.stop /\ ~observed.foreign) =>
        ReturnedBestMove({GameMoves(searchLast.position)[i] : i \in 1 .. Len(GameMoves(searchLast.position))})

\* search has returned its first move, the second having the same score,
\* after a search with a hit on an entry of its own.
TieOnOwnEntries ==
    /\ searchLast.op = "return" /\ searchLast.fn = "search" /\ ~observed.stop /\ ~observed.foreign
    /\ observed.hit
    /\ searchLast.value = searchLast.options[1]
    /\ Negamax(searchLast.options[2], SEARCH_DEPTH) = Negamax(searchLast.options[1], SEARCH_DEPTH)

\* The same over the moves compute_legal_moves has given, for any search
\* in which stop_fn never says true.
SearchReturnsBestGeneratedMove ==
    (searchLast.op = "return" /\ searchLast.fn = "search" /\ ~observed.stop) =>
        ReturnedBestMove({GameMoves(searchLast.position)[i] : i \in 1 .. Len(GameMoves(searchLast.position))})

\* C27: on every return path of minimax and of search the board is the
\* board the call was entered with, in every field and in its hash.
C27_BoardRestored ==
    searchLast.op = "return" =>
        /\ searchLast.left = searchLast.position
        /\ HashOf(searchLast.left) = HashOf(searchLast.position)

\* A call below the root has returned positive infinity at once from its
\* loop, its move unmade.
C27_Witness ==
    /\ searchLast.op = "return" /\ searchLast.fn = "minimax" /\ searchLast.path = "+infinity"
    /\ callStack # <<>>
    /\ searchLast.position # searchBoard \/ Top.pc = "move"
    /\ searchLast.left = searchLast.position

\* C29: when no probe of the cache hits and stop_fn never says true, a call
\* minimax(board, d, negative infinity) returns the plain negamax value of
\* depth d over eval.
C29_MinimaxIsNegamax ==
    (searchLast.op = "return" /\ searchLast.fn = "minimax"
        /\ searchLast.prune = NEG_INFINITY /\ searchLast.exact) =>
        searchLast.value = Negamax(searchLast.position, searchLast.depth_remaining)

\* A call at the full depth has returned a finite value after a call below
\* it was cut short by a cutoff or by positive infinity.
C29_Witness ==
    /\ searchLast.op = "return" /\ searchLast.fn = "minimax"
    /\ searchLast.prune = NEG_INFINITY /\ searchLast.exact /\ searchLast.cut
    /\ searchLast.depth_remaining = SEARCH_DEPTH
    /\ searchLast.value \notin {INFINITY, NEG_INFINITY}
    /\ searchLast.value = Negamax(searchLast.position, searchLast.depth_remaining)

====
